---- MODULE Spec2Model ----
(***************************************************************************)
(* A state-machine model of the IPRE recommendation pipeline               *)
(* (lsingodiya/ipre-recommendation):                                       *)
(*   S1  scripts/market_basket.py      the market basket                   *)
(*   S2  scripts/train_clustering.py   per-segment clustering              *)
(*   S3  scripts/associations.py       association-rule mining             *)
(*   S4  scripts/ranking.py            scoring, fallback and ranking       *)
(*   S5  scripts/feedback.py           feedback calibration                *)
(*   S6  scripts/inference.py          the serving handlers                *)
(*       pipeline.py                   the steps and their dependencies    *)
(* Tables are sets of records (one record per row), identifiers are        *)
(* strings, dates are day numbers.  Ratios that the code holds as floats   *)
(* are kept exact: a ratio column is a record [num, den]; scores are       *)
(* fixed-point integers in units of 1/SCALE.                               *)
(* Each stage has its own specification (SpecAssoc, SpecRank, ...); the    *)
(* variables of the other stages stay at their idle values.                *)
(***************************************************************************)
EXTENDS Integers, Sequences, FiniteSets, TLC

VARIABLES
    \* ---- S3: associations.main
    invoices,        \* invoice.csv rows after date parsing
    clusters,        \* customer_clusters.csv as read by S3 and S4
    WINDOW_DAYS,     \* configured window, 0 = auto
    window,          \* the window in force (0 before it is computed)
    df,              \* sessionized invoices joined with clusters
    rows,            \* co-occurrence tuples appended by the basket loop
    pair_counts,     \* rule rows with all metric columns, before filtering
    associations,    \* associations.csv
    pc_assoc,        \* position of associations.main
    \* ---- S4: ranking.main
    basket,          \* market_basket.csv
    assoc,           \* associations.csv as read by S4
    TOP_K,           \* configured cap per customer
    customers_with_recs,
    out,             \* the candidate frame `out`
    recommendations, \* recommendations.csv (rows carry rank)
    pc_rank,         \* position of ranking.main
    \* ---- S5: feedback.main
    feedback,        \* the feedback file: [present, rows]
    now,             \* the wall clock read by the run, a day number
    final,           \* final_recommendations.csv
    summary,         \* feedback_summary.json: empty, or one record
    previous,        \* what the preceding run of S5 published
    pc_fb,           \* position of feedback.main
    \* ---- S2: train_clustering.main
    train_df,        \* market_basket.csv as read by S2
    FEATURE_GROUPS,  \* configured feature groups
    MIN_CLUSTER_CUSTOMERS,
    MAX_K,
    todo,            \* the segments the loop has still to visit
    cluster_outputs, \* rows collected for customer_clusters.csv
    model_registry,  \* entries collected for model_registry.json
    pc_train,        \* position of train_clustering.main
    \* ---- S6: inference.py
    reco_readable,   \* whether the published final recommendations can be read
    model_dir,       \* the unpacked model archive: [registry_present, models]
    model,           \* what model_fn returned: [models, reco_df]
    input_data,      \* the request being served
    response,        \* what predict_fn returned or raised for it
    pc_inf,          \* position of the serving container
    \* ---- S3: the metrics and the filter on given counts
    basket_counts,   \* pair_counts after the three merges, before the metrics
    \* ---- S1: market_basket.main
    invoice_csv,     \* invoice.csv as read by S1 (NaT: unparseable date)
    MIN_ORDER_COUNT,
    ref_date,        \* the reference date of the run (NaT before it)
    grouped,         \* market_basket.csv as written by S1
    mb_previous,     \* input and output of the preceding run of S1
    pc_mb,           \* position of market_basket.main
    \* ---- thresholds the pipeline hands to the steps (pipeline.py 394, 447)
    MIN_CONFIDENCE,  \* of S4, per mille
    SCORE_CUTOFF,    \* of S5, in score units
    \* ---- S5: resolve_weight applied to one feedback row
    fb_row,          \* the row: rating, reason_code, sentiment (raw cells)
    feedback_weight, \* the multiplier resolved for it (0 before the call)
    pc_weight,
    \* ---- pipeline.py: the executions of the pipeline
    executions       \* per execution, the state of each of its steps

assoc_vars == <<invoices, WINDOW_DAYS, window, df, rows,
                pair_counts, associations, pc_assoc>>
rank_vars  == <<basket, assoc, TOP_K, customers_with_recs, out,
                recommendations, pc_rank>>

fb_vars    == <<feedback, now, final, summary, previous, pc_fb>>

train_vars == <<train_df, FEATURE_GROUPS, MIN_CLUSTER_CUSTOMERS, MAX_K, todo,
                cluster_outputs, model_registry, pc_train>>

inf_vars   == <<reco_readable, model_dir, model, input_data, response, pc_inf>>

weight_vars == <<fb_row, feedback_weight, pc_weight>>

mb_vars == <<invoice_csv, MIN_ORDER_COUNT, ref_date, grouped, mb_previous, pc_mb>>

\* The variables of the specifications added for single steps.
unit_vars == <<weight_vars, mb_vars, basket_counts, executions>>

config_vars == <<MIN_CONFIDENCE, SCORE_CUTOFF>>

vars == <<clusters, assoc_vars, rank_vars, fb_vars, train_vars, inf_vars, unit_vars,
          config_vars>>

\* What the actions of one stage leave alone.
not_assoc == <<rank_vars, fb_vars, train_vars, inf_vars, unit_vars, config_vars>>
not_rank  == <<assoc_vars, fb_vars, train_vars, inf_vars, unit_vars, config_vars>>
not_fb    == <<clusters, assoc_vars, rank_vars, train_vars, inf_vars, unit_vars, config_vars>>
not_train == <<assoc_vars, rank_vars, fb_vars, inf_vars, unit_vars, config_vars>>
not_inf   == <<clusters, assoc_vars, rank_vars, fb_vars, train_vars, unit_vars, config_vars>>
not_weight == <<clusters, assoc_vars, rank_vars, fb_vars, train_vars, inf_vars, config_vars,
                mb_vars, basket_counts, executions>>
not_mb    == <<clusters, assoc_vars, rank_vars, fb_vars, train_vars, inf_vars, config_vars,
               weight_vars, basket_counts, executions>>
not_pipeline == <<clusters, assoc_vars, rank_vars, fb_vars, train_vars, inf_vars, config_vars,
                  weight_vars, mb_vars, basket_counts>>

-----------------------------------------------------------------------------
(* Generic helpers *)

Max(a, b) == IF a >= b THEN a ELSE b
Min(a, b) == IF a <= b THEN a ELSE b

\* round(num/den) to the nearest integer, ties to the even neighbour
\* (Python round / numpy round), for num >= 0 and den > 0.
RoundHalfEven(num, den) ==
    LET f == num \div den
        r == num % den
    IN  IF 2 * r < den THEN f
        ELSE IF 2 * r > den THEN f + 1
        ELSE IF f % 2 = 0 THEN f ELSE f + 1

\* ceil(num/den) for num >= 0 and den > 0.
CeilDiv(num, den) == (num + den - 1) \div den

\* A set of integers as an ascending sequence with multiplicities given by
\* a bag-like function is not needed: sequences are sorted by insertion.
RECURSIVE SortInts(_)
SortInts(s) ==
    IF Len(s) <= 1 THEN s
    ELSE LET rest == SortInts(Tail(s))
             x    == Head(s)
             k    == Cardinality({i \in 1..Len(rest) : rest[i] < x})
         IN  SubSeq(rest, 1, k) \o <<x>> \o SubSeq(rest, k + 1, Len(rest))

\* Twice the median of a non-empty sequence of integers (pandas .median()).
Median2(s) ==
    LET t == SortInts(s)
        n == Len(t)
    IN  IF n % 2 = 1 THEN 2 * t[(n + 1) \div 2]
        ELSE t[n \div 2] + t[n \div 2 + 1]

-----------------------------------------------------------------------------
(* Idle values of the stages a specification does not run *)

AssocIdle ==
    /\ invoices = {} /\ WINDOW_DAYS = 0 /\ window = 0 /\ df = {} /\ rows = {}
    /\ pair_counts = {} /\ associations = {} /\ pc_assoc = "idle"

FeedbackIdle ==
    /\ feedback = [present |-> FALSE, readable |-> FALSE, columns |-> {}, rows |-> {}]
    /\ now = 0
    /\ final = {}
    /\ summary = {}
    /\ previous = {}
    /\ pc_fb = "idle"

TrainIdle ==
    /\ train_df = {} /\ FEATURE_GROUPS = {} /\ MIN_CLUSTER_CUSTOMERS = 0 /\ MAX_K = 0
    /\ todo = <<>> /\ cluster_outputs = {} /\ model_registry = {} /\ pc_train = "idle"

\* Absent values of the serving state.
NoRequest ==
    [customer_id |-> [tag |-> "missing", val |-> ""],
     segment |-> [tag |-> "missing", val |-> ""],
     purchase_vector |-> [tag |-> "missing", val |-> [k \in {} |-> 0]],
     instances |-> [tag |-> "missing", val |-> <<>>]]
NoResponse ==
    [outcome |-> "none", exception |-> "", customer_id |-> "", segment |-> "",
     cluster_id |-> "", source |-> "", recommendations |-> <<>>,
     has_error |-> FALSE, has_message |-> FALSE, has_predictions |-> FALSE,
     predictions |-> <<>>]

InferIdle ==
    /\ reco_readable = FALSE
    /\ model_dir = [registry_present |-> FALSE, models |-> {}]
    /\ model = [models |-> {}, reco_df |-> {}]
    /\ input_data = NoRequest
    /\ response = NoResponse
    /\ pc_inf = "idle"

RankIdle ==
    /\ basket = {} /\ assoc = {} /\ TOP_K = 0 /\ customers_with_recs = {}
    /\ out = {} /\ recommendations = {} /\ pc_rank = "idle"

WeightIdle ==
    /\ fb_row = [rating |-> <<>>, reason_code |-> <<>>, sentiment |-> <<>>]
    /\ feedback_weight = 0
    /\ pc_weight = "idle"

BasketIdle ==
    /\ invoice_csv = {} /\ MIN_ORDER_COUNT = 0 /\ ref_date = 0 - 1 /\ grouped = {}
    /\ mb_previous = {} /\ pc_mb = "idle"

\* Idle values of the specifications added for single steps.
CountsIdle == basket_counts = {}

\* ... and no execution of the pipeline has been started.
UnitIdle == WeightIdle /\ BasketIdle /\ CountsIdle /\ executions = <<>>

\* The thresholds at their defaults: MIN_CONFIDENCE 0.05, SCORE_CUTOFF 0.08.
DefaultConfig == MIN_CONFIDENCE = 50 /\ SCORE_CUTOFF = 80000

-----------------------------------------------------------------------------
(* S3: scripts/associations.py *)

MaxInvoices == 5

AssocCustomers == {"C1", "C1_1"}
AssocProducts  == {"P1", "P2", "P3"}
AssocDays      == {1, 9}
AssocClusterIds == {"S_0", "S_1"}

MIN_LIFT           == 12000     \* 1.2, in units of 1/10000 (lift is rounded to 4 decimals)
MIN_ABS_FREQ       == 2
MIN_FREQ_RATIO_PCT == 3         \* MIN_FREQ_RATIO = 0.03
WINDOW_MIN         == 7
WINDOW_MAX         == 90
WINDOW_DEFAULT     == 30

InvoiceRows ==
    [customer_id : AssocCustomers, product_id : AssocProducts, invoice_date : AssocDays]

\* customer_clusters.csv: at most one row per customer.
ClusterTables ==
    { {[customer_id |-> c, cluster_id |-> f[c], segment |-> "S"] :
          c \in {x \in AssocCustomers : f[x] # "none"}} :
      f \in [AssocCustomers -> AssocClusterIds \cup {"none"}] }

\* sort_values(["customer_id", "invoice_date"]) restricted to one customer.
RECURSIVE SortByDate(_)
SortByDate(S) ==
    IF S = {} THEN <<>>
    ELSE LET r == CHOOSE x \in S : \A y \in S : x.invoice_date <= y.invoice_date
         IN  <<r>> \o SortByDate(S \ {r})

CustomerRows(inv, c) == SortByDate({r \in inv : r.customer_id = c})

\* gap_days of the rows after the first (the first row's gap is NaN).
GapDays(s) == [i \in 1..(Len(s) - 1) |-> s[i + 1].invoice_date - s[i].invoice_date]

RECURSIVE CustomerMedians(_, _)
CustomerMedians(inv, cs) ==
    IF cs = {} THEN <<>>
    ELSE LET c == CHOOSE x \in cs : TRUE
             g == GapDays(CustomerRows(inv, c))
         IN  (IF Len(g) = 0 THEN <<>> ELSE <<Median2(g)>>)
             \o CustomerMedians(inv, cs \ {c})

\* The window with the dataset median truncated instead of rounded: what
\* ThreeDatesOneBasket guards against.
compute_basket_window_truncated(inv) ==
    LET med == CustomerMedians(inv, {r.customer_id : r \in inv})
    IN  IF Len(med) = 0 THEN WINDOW_DEFAULT
        ELSE Min(WINDOW_MAX, Max(WINDOW_MIN, Median2(med) \div 4))

compute_basket_window(inv) ==
    LET med == CustomerMedians(inv, {r.customer_id : r \in inv})
    IN  IF Len(med) = 0 THEN WINDOW_DEFAULT
        ELSE \* med holds doubled medians, so Median2(med) is 4 x dataset_median
             Min(WINDOW_MAX, Max(WINDOW_MIN, RoundHalfEven(Median2(med), 4)))

\* A session that also starts at a gap equal to the window: what
\* SessionsSplitOnGap guards against.
NewBasketAtWindow(s, i, w) == i = 1 \/ s[i].invoice_date - s[i - 1].invoice_date >= w

\* new_basket = (gap > window) | gap.isna(); basket_id = cumsum(new_basket)
NewBasket(s, i, w) == i = 1 \/ s[i].invoice_date - s[i - 1].invoice_date > w
BasketId(s, i, w)  == Cardinality({j \in 1..i : NewBasket(s, j, w)})

GlobalBasketIdRaw(c, b) == ToString(b)
GlobalBasketId(c, b) == c \o "_" \o ToString(b)

\* invoices with basket_id and global_basket_id, left-joined with clusters,
\* rows without a cluster dropped.
Sessionize(inv, cl, w) ==
    UNION { LET s == CustomerRows(inv, c)
            IN  { [customer_id      |-> c,
                   product_id       |-> s[i].product_id,
                   invoice_date     |-> s[i].invoice_date,
                   basket_id        |-> BasketId(s, i, w),
                   global_basket_id |-> GlobalBasketId(c, BasketId(s, i, w)),
                   cluster_id       |-> k.cluster_id,
                   segment          |-> k.segment] :
                  i \in 1..Len(s), k \in {x \in cl : x.customer_id = c} }
          : c \in {r.customer_id : r \in inv} }

\* The basket loop: one group per (segment, cluster_id, customer_id,
\* global_basket_id); every ordered pair of distinct products of the group
\* is appended once.  customer_id and global_basket_id tag the appended
\* tuple with the group that appended it, so that the set keeps one element
\* per appended tuple.
CoOccurrenceRows(d) ==
    UNION { { [segment |-> r.segment, cluster_id |-> r.cluster_id,
               product_a |-> r.product_id, product_b |-> q.product_id,
               customer_id |-> r.customer_id,
               global_basket_id |-> r.global_basket_id] :
              q \in {x \in d : /\ x.segment = r.segment
                               /\ x.cluster_id = r.cluster_id
                               /\ x.customer_id = r.customer_id
                               /\ x.global_basket_id = r.global_basket_id
                               /\ x.product_id # r.product_id} }
          : r \in d }

\* groupby(segment, cluster_id, product_id)["global_basket_id"].nunique()
ProductBasketFreq(d, seg, cl, p) ==
    Cardinality({r.global_basket_id :
                   r \in {x \in d : x.segment = seg /\ x.cluster_id = cl /\ x.product_id = p}})

\* groupby(segment, cluster_id)["global_basket_id"].nunique()
TotalBaskets(d, seg, cl) ==
    Cardinality({r.global_basket_id :
                   r \in {x \in d : x.segment = seg /\ x.cluster_id = cl}})

\* lift = confidence / (product_b_freq / total_baskets), 0 when P(B) = 0,
\* rounded to 4 decimals; in units of 1/10000.
Lift(pf, fa, fb, tot) ==
    IF fb = 0 \/ fa = 0 \/ tot = 0 THEN 0
    ELSE RoundHalfEven(pf * tot * 10000, fa * fb)

\* lines 316-328: the metric columns of one row of the merged pair_counts
Metrics(c) ==
    [segment |-> c.segment, cluster_id |-> c.cluster_id,
     product_a |-> c.product_a, product_b |-> c.product_b,
     pair_freq     |-> c.pair_freq,
     product_freq  |-> c.product_freq,
     total_baskets |-> c.total_baskets,
     confidence    |-> [num |-> c.pair_freq, den |-> c.product_freq],
     support       |-> [num |-> c.pair_freq, den |-> c.total_baskets],
     lift          |-> Lift(c.pair_freq, c.product_freq, c.product_b_freq, c.total_baskets)]

PairCounts(d, rw) ==
    { Metrics([segment |-> k[1], cluster_id |-> k[2], product_a |-> k[3], product_b |-> k[4],
               pair_freq |-> Cardinality({r \in rw :
                                /\ r.segment = k[1] /\ r.cluster_id = k[2]
                                /\ r.product_a = k[3] /\ r.product_b = k[4]}),
               product_freq   |-> ProductBasketFreq(d, k[1], k[2], k[3]),
               product_b_freq |-> ProductBasketFreq(d, k[1], k[2], k[4]),
               total_baskets  |-> TotalBaskets(d, k[1], k[2])]) :
      k \in {<<r.segment, r.cluster_id, r.product_a, r.product_b>> : r \in rw} }

\* assert confidence <= 1.0 + 1e-9 and support <= 1.0 + 1e-9
SanityAssertions(pc) ==
    \A r \in pc : r.confidence.num <= r.confidence.den /\ r.support.num <= r.support.den

\* min_freq = ceil(clip(total_baskets * MIN_FREQ_RATIO, lower = MIN_ABS_FREQ))
MinFreq(tot) == Max(MIN_ABS_FREQ, CeilDiv(tot * MIN_FREQ_RATIO_PCT, 100))

\* The two filters and the columns dropped before saving.
FilterRules(pc) ==
    { [segment |-> r.segment, cluster_id |-> r.cluster_id,
       product_a |-> r.product_a, product_b |-> r.product_b,
       pair_freq |-> r.pair_freq, product_freq |-> r.product_freq,
       confidence |-> r.confidence, support |-> r.support, lift |-> r.lift] :
      r \in {x \in pc : x.product_freq >= MinFreq(x.total_baskets) /\ x.lift >= MIN_LIFT} }

InitAssoc ==
    /\ invoices \in {S \in SUBSET InvoiceRows : S # {} /\ Cardinality(S) <= MaxInvoices}
    /\ clusters \in ClusterTables
    /\ WINDOW_DAYS \in {0, WINDOW_MIN}
    /\ window = 0
    /\ df = {}
    /\ rows = {}
    /\ pair_counts = {}
    /\ associations = {}
    /\ pc_assoc = "start"
    /\ RankIdle
    /\ FeedbackIdle
    /\ TrainIdle
    /\ InferIdle
    /\ UnitIdle
    /\ DefaultConfig

\* lines 184-236: window, basket sessions, join with clusters
AssocSessionize ==
    /\ pc_assoc = "start"
    /\ LET w == IF WINDOW_DAYS = 0 THEN compute_basket_window(invoices) ELSE WINDOW_DAYS
       IN  /\ window' = w
           /\ df' = Sessionize(invoices, clusters, w)
    /\ pc_assoc' = "sessionized"
    /\ UNCHANGED <<invoices, clusters, WINDOW_DAYS, rows, pair_counts, associations, not_assoc>>

\* lines 241-269: the basket loop; with no pair an empty table is written
AssocPairs ==
    /\ pc_assoc = "sessionized"
    /\ rows' = CoOccurrenceRows(df)
    /\ pc_assoc' = IF rows' = {} THEN "done" ELSE "pairs"
    /\ UNCHANGED <<invoices, clusters, WINDOW_DAYS, window, df, pair_counts, associations, not_assoc>>

\* lines 276-334: metrics and the sanity assertions
AssocMetrics ==
    /\ pc_assoc = "pairs"
    /\ pair_counts' = PairCounts(df, rows)
    /\ pc_assoc' = IF SanityAssertions(pair_counts') THEN "metrics" ELSE "failed"
    /\ UNCHANGED <<invoices, clusters, WINDOW_DAYS, window, df, rows, associations, not_assoc>>

\* lines 341-371: filtering and save
AssocFilter ==
    /\ pc_assoc = "metrics"
    /\ associations' = FilterRules(pair_counts)
    /\ pc_assoc' = "done"
    /\ UNCHANGED <<invoices, clusters, WINDOW_DAYS, window, df, rows, pair_counts, not_assoc>>

NextAssoc == AssocSessionize \/ AssocPairs \/ AssocMetrics \/ AssocFilter

SpecAssoc == InitAssoc /\ [][NextAssoc]_vars

-----------------------------------------------------------------------------
(* S3 on the invoices of one customer spread over up to four dates *)

InitWindow ==
    /\ invoices \in {S \in SUBSET [customer_id : {"C1"}, product_id : AssocProducts,
                                   invoice_date : {1, 9, 40, 80}] :
                        S # {} /\ Cardinality(S) <= MaxInvoices}
    /\ clusters \in { {} } \cup { {[customer_id |-> "C1", cluster_id |-> k, segment |-> "S"]} :
                                   k \in AssocClusterIds }
    /\ WINDOW_DAYS \in {0, WINDOW_MIN, 8}
    /\ window = 0
    /\ df = {}
    /\ rows = {}
    /\ pair_counts = {}
    /\ associations = {}
    /\ pc_assoc = "start"
    /\ RankIdle /\ FeedbackIdle /\ TrainIdle /\ InferIdle /\ UnitIdle
    /\ DefaultConfig

SpecWindow == InitWindow /\ [][NextAssoc]_vars

-----------------------------------------------------------------------------
(* S3: the metrics and the filter on the counts of one pair *)

MaxCount == 6

\* The counts of a pair (P1, P2) in a cluster: small clusters of up to
\* MaxCount baskets, and a cluster of 95 baskets in which both products are
\* frequent.  The pair occurs, in no more baskets than either product, and
\* the baskets holding one of the two are baskets of the cluster.
InitLift ==
    /\ \E tot \in (1..MaxCount) \cup {95} :
       \E fa \in IF tot = 95 THEN 72..74 ELSE 1..tot :
       \E fb \in IF tot = 95 THEN 76..78 ELSE 1..tot :
       \E pf \in IF tot = 95 THEN 70..72 ELSE 1..Min(fa, fb) :
          /\ fa + fb - pf <= tot
          /\ basket_counts =
                { [segment |-> "S", cluster_id |-> "S_0", product_a |-> "P1",
                   product_b |-> "P2", pair_freq |-> pf, product_freq |-> fa,
                   product_b_freq |-> fb, total_baskets |-> tot] }
    /\ invoices = {} /\ WINDOW_DAYS = 0 /\ window = 0 /\ df = {} /\ rows = {}
    /\ pair_counts = {} /\ associations = {} /\ pc_assoc = "counted"
    /\ clusters = {}
    /\ RankIdle /\ FeedbackIdle /\ TrainIdle /\ InferIdle /\ WeightIdle /\ BasketIdle
    /\ executions = <<>>
    /\ DefaultConfig

\* lines 316-334 on the merged counts
AssocMetricsOfCounts ==
    /\ pc_assoc = "counted"
    /\ pair_counts' = {Metrics(c) : c \in basket_counts}
    /\ pc_assoc' = IF SanityAssertions(pair_counts') THEN "metrics" ELSE "failed"
    /\ UNCHANGED <<invoices, clusters, WINDOW_DAYS, window, df, rows, associations, not_assoc>>

NextLift == AssocMetricsOfCounts \/ AssocFilter

SpecLift == InitLift /\ [][NextLift]_vars

-----------------------------------------------------------------------------
(* S4: scripts/ranking.py *)

MaxTopK       == 2
MaxBasketRows == 3
MaxRules      == 2

SCALE              == 1000000   \* scores are integers in units of 1e-6
MIN_SUPPORT_PCT    == 1         \* MIN_SUPPORT = 0.01
W_CONF             == 450       \* 0.45, per mille
W_SUPP             == 200
W_LIFT             == 200
W_RECENCY          == 150
MAX_LIFT_NORMALISE == 50000     \* 5.0, in units of 1/10000 like lift
L3_TIEBREAK_MARGIN == 20000     \* 0.02, in score units
FALLBACK_BASE      == 100000    \* 0.1, in score units

\* The input universe: two customers, four products with their categories.
RankProducts == <<"P1", "P2", "P3", "P4">>     \* in ascending product_id order
BasketKeys ==
    ({"C1"} \X {"P1", "P2", "P3"}) \cup ({"C2"} \X {"P3", "P4"})
PeerConfigs ==
    { [segment |-> "S", cluster_id |-> "S_0"], [segment |-> "S", cluster_id |-> "S_1"],
      [segment |-> "T", cluster_id |-> "T_0"], [segment |-> "S", cluster_id |-> "none"] }

BasketRow(c, p, seg, stock) ==
    [customer_id |-> c, product_id |-> p, segment |-> seg,
     l2_category |-> IF p \in {"P1", "P2"} THEN "A" ELSE "B",
     l3_category |-> IF p = "P1" THEN "A1" ELSE IF p = "P2" THEN "A2" ELSE "B1",
     in_stock |-> stock,
     purchase_frequency |-> IF p = "P1" THEN 2 ELSE 1,
     total_quantity |-> 3,
     recency_days |-> IF p = "P1" THEN 0 ELSE IF p = "P2" THEN 4 ELSE 9]

RuleRow(a, b, profile) ==
    LET pf == IF profile = "bad" THEN 3 ELSE IF profile = "ok" THEN 2 ELSE 1
        fa == IF profile = "bad" THEN 2 ELSE IF a = "P1" THEN 4 ELSE 5
    IN  [segment |-> "S", cluster_id |-> "S_0", product_a |-> a, product_b |-> b,
         pair_freq |-> pf, product_freq |-> fa,
         confidence |-> [num |-> pf, den |-> fa],
         support |-> [num |-> pf, den |-> 10],
         weighted_support |-> [num |-> 9 * pf, den |-> 100],
         lift |-> IF profile = "weak" THEN 10000 ELSE 10000 * pf]

AssocTables ==
    LET U == { RuleRow(k[1], k[2], pr) :
                 k \in {<<"P1", "P3">>, <<"P2", "P3">>, <<"P1", "P4">>, <<"P3", "P4">>},
                 pr \in {"ok", "weak", "bad"} }
    IN  { T \in SUBSET U :
            /\ Cardinality(T) <= MaxRules
            /\ \A r \in T, q \in T :
                  r.product_a = q.product_a /\ r.product_b = q.product_b => r = q }

RECURSIVE SumFn(_, _)
SumFn(f, S) ==
    IF S = {} THEN 0
    ELSE LET x == CHOOSE y \in S : TRUE IN f[x] + SumFn(f, S \ {x})

\* df = basket.merge(clusters without segment, how="left").dropna(cluster_id)
RankDf(bk, cl) ==
    UNION { { b @@ ("cluster_id" :> k.cluster_id) : k \in {x \in cl : x.customer_id = b.customer_id} }
          : b \in bk }

CustRows(d, c) == {r \in d : r.customer_id = c}
Bought(d, c)   == {r.product_id : r \in CustRows(d, c)}

\* in_stock_ids: products with a basket row whose in_stock is true
InStockIds(bk) == {r.product_id : r \in {x \in bk : x.in_stock}}

\* prod_l2 / prod_l3: the category of the product's first basket row
ProdMeta(bk, p) ==
    IF \E r \in bk : r.product_id = p
    THEN LET r == CHOOSE x \in bk : x.product_id = p
         IN  [l2 |-> r.l2_category, l3 |-> r.l3_category]
    ELSE [l2 |-> "Unknown", l3 |-> "Unknown"]

\* build_quantity_lookup: max(1, round(median(total_quantity / purchase_frequency)))
QtyLookup(bk, c, p) ==
    IF \E r \in bk : r.customer_id = c /\ r.product_id = p
    THEN LET r == CHOOSE x \in bk : x.customer_id = c /\ x.product_id = p
         IN  Max(1, RoundHalfEven(r.total_quantity,
                                  IF r.purchase_frequency = 0 THEN 1 ELSE r.purchase_frequency))
    ELSE 1

\* build_customer_l3_affinity: share of purchase_frequency per l3_category
L3Affinity(bk, c, l3) ==
    LET R == CustRows(bk, c)
        t == SumFn([r \in R |-> r.purchase_frequency], R)
        G == {r \in R : r.l3_category = l3}
    IN  [num |-> SumFn([r \in G |-> r.purchase_frequency], G),
         den |-> IF t = 0 THEN 1 ELSE t]

\* build_l2_affinity: share of total_quantity per l2_category, in score units
L2Affinity(bk, c, l2) ==
    LET R == CustRows(bk, c)
        t == SumFn([r \in R |-> r.total_quantity], R)
        G == {r \in R : r.l2_category = l2}
    IN  (SCALE * SumFn([r \in G |-> r.total_quantity], G)) \div (IF t = 0 THEN 1 ELSE t)

\* np.clip(x, 0, 1) of a ratio, in score units
Clip01(x) ==
    IF x.num <= 0 THEN 0 ELSE IF x.num >= x.den THEN SCALE ELSE (SCALE * x.num) \div x.den

\* (lift - 1.0) / (MAX_LIFT_NORMALISE - 1.0), clipped to [0, 1]; lift carries
\* four decimals, so the quotient is taken on lift * 10^4.
normalise_lift(lift) ==
    Min(SCALE, Max(0, ((lift - 10000) * (SCALE \div 100)) \div ((MAX_LIFT_NORMALISE - 10000) \div 100)))

score_rule(confidence, support, lift, recency_score) ==
    (W_CONF * Clip01(confidence) + W_SUPP * Clip01(support)
       + W_LIFT * normalise_lift(lift)
       + W_RECENCY * Min(SCALE, Max(0, recency_score))) \div 1000

\* recency_score = 1 / (1 + mean(recency_days)), in score units
RecencyScore(d, c) ==
    LET R == CustRows(d, c)
        n == Cardinality(R)
    IN  (SCALE * n) \div (n + SumFn([r \in R |-> r.recency_days], R))

\* The rule checks without the already-purchased test: what RecsValid guards against.
RuleQualifiesAnyTarget(r, bought, stock) ==
    /\ r.product_a \in bought
    /\ r.product_b \in stock
    /\ 100 * r.support.num >= MIN_SUPPORT_PCT * r.support.den
    /\ 1000 * r.confidence.num >= MIN_CONFIDENCE * r.confidence.den
    /\ r.lift >= MIN_LIFT

\* The rejection checks of the rule loop, lines 420-441.
RuleQualifies(r, bought, stock) ==
    /\ r.product_b \notin bought
    /\ r.product_a \in bought
    /\ r.product_b \in stock
    /\ 100 * r.support.num >= MIN_SUPPORT_PCT * r.support.den
    /\ 1000 * r.confidence.num >= MIN_CONFIDENCE * r.confidence.den
    /\ r.lift >= MIN_LIFT

\* The main loop with the whole margin as bonus, whatever the customer's
\* share of the category: what TiebreakBonus guards against.
CustomerCandidatesFlatBonus(d, bk, as, c) ==
    LET first   == CHOOSE x \in CustRows(d, c) : TRUE
        bought  == Bought(d, c)
        rules   == {r \in as : r.cluster_id = first.cluster_id /\ r.segment = first.segment}
        recency == RecencyScore(d, c)
    IN  { LET l3     == ProdMeta(bk, r.product_b).l3
              share  == L3Affinity(bk, c, l3)
              bonus  == IF share.num > 0
                        THEN L3_TIEBREAK_MARGIN ELSE 0
          IN  [customer_id |-> c, recommended_product |-> r.product_b,
               cluster_id |-> first.cluster_id, segment |-> first.segment,
               l2_category |-> ProdMeta(bk, r.product_b).l2, l3_category |-> l3,
               trigger_product |-> r.product_a,
               support |-> r.support, confidence |-> r.confidence, lift |-> r.lift,
               score |-> score_rule(r.confidence, r.weighted_support, r.lift, recency) + bonus,
               recommended_qty |-> QtyLookup(bk, c, r.product_a)] :
          r \in {x \in rules : RuleQualifies(x, bought, InStockIds(bk))} }

\* The rows the main loop appends for customer c.
CustomerCandidates(d, bk, as, c) ==
    LET first   == CHOOSE x \in CustRows(d, c) : TRUE
        bought  == Bought(d, c)
        rules   == {r \in as : r.cluster_id = first.cluster_id /\ r.segment = first.segment}
        recency == RecencyScore(d, c)
    IN  { LET l3     == ProdMeta(bk, r.product_b).l3
              share  == L3Affinity(bk, c, l3)
              bonus  == IF share.num > 0
                        THEN (share.num * L3_TIEBREAK_MARGIN) \div share.den ELSE 0
          IN  [customer_id |-> c, recommended_product |-> r.product_b,
               cluster_id |-> first.cluster_id, segment |-> first.segment,
               l2_category |-> ProdMeta(bk, r.product_b).l2, l3_category |-> l3,
               trigger_product |-> r.product_a,
               support |-> r.support, confidence |-> r.confidence, lift |-> r.lift,
               score |-> score_rule(r.confidence, r.weighted_support, r.lift, recency) + bonus,
               recommended_qty |-> QtyLookup(bk, c, r.product_a)] :
          r \in {x \in rules : RuleQualifies(x, bought, InStockIds(bk))} }

\* sort_values("score", ascending=False).drop_duplicates(customer, product):
\* one row of maximal score per key; among rows of equal score the sort
\* (numpy quicksort, not stable) may put any of them first.
RECURSIVE DedupChoices(_, _)
DedupChoices(S, keys) ==
    IF keys = {} THEN {{}}
    ELSE LET k    == CHOOSE x \in keys : TRUE
             G    == {r \in S : <<r.customer_id, r.recommended_product>> = k}
             best == {r \in G : \A q \in G : r.score >= q.score}
         IN  { {r} \cup rest : r \in best, rest \in DedupChoices(S, keys \ {k}) }

\* drop_duplicates without the preceding sort by score: any row of a key may
\* be the one kept.  What HighestScoreKept guards against.
DropDuplicatesUnsorted(S) ==
    LET keys == {<<r.customer_id, r.recommended_product>> : r \in S}
    IN  { T \in SUBSET S :
            \A k \in keys :
               Cardinality({r \in T : <<r.customer_id, r.recommended_product>> = k}) = 1 }

DropDuplicates(S) ==
    DedupChoices(S, {<<r.customer_id, r.recommended_product>> : r \in S})

ProductIdx(p) == CHOOSE i \in 1..Len(RankProducts) : RankProducts[i] = p

\* The fallback that is not told what the customer is already recommended:
\* what AssociationsSurviveTopUp guards against.
category_aware_fallback_unaware(d, bk, cs, existing, topk) ==
    UNION { LET first   == CHOOSE x \in CustRows(d, c) : TRUE
                exclude == Bought(d, c)
                seg     == {r \in d : r.segment = first.segment}
                pool    == ({r.product_id : r \in seg} \cap InStockIds(bk)) \ exclude
                aff(p)  == L2Affinity(bk, c, ProdMeta(bk, p).l2)
                pop(p)  == LET G == {r \in seg : r.product_id = p}
                           IN  SumFn([r \in G |-> r.purchase_frequency], G)
                before(q, p) ==
                    \/ aff(q) > aff(p)
                    \/ aff(q) = aff(p) /\ pop(q) > pop(p)
                    \/ aff(q) = aff(p) /\ pop(q) = pop(p) /\ ProductIdx(q) < ProductIdx(p)
                slots   == topk
                take    == IF slots >= 0 THEN slots ELSE Max(0, Cardinality(pool) + slots)
            IN  { [customer_id |-> c, recommended_product |-> p,
                   cluster_id |-> first.cluster_id, segment |-> first.segment,
                   l2_category |-> ProdMeta(bk, p).l2, l3_category |-> ProdMeta(bk, p).l3,
                   trigger_product |-> "fallback",
                   support |-> [num |-> 0, den |-> 1], confidence |-> [num |-> 0, den |-> 1],
                   lift |-> 0,
                   score |-> FALLBACK_BASE + aff(p),
                   recommended_qty |-> 1] :
                  p \in {x \in pool : Cardinality({q \in pool : before(q, x)}) < take} }
          : c \in {x \in cs : CustRows(d, x) # {}} }

\* category_aware_fallback for the customers cs, given the rows already in out.
category_aware_fallback(d, bk, cs, existing, topk) ==
    UNION { LET first   == CHOOSE x \in CustRows(d, c) : TRUE
                exclude == Bought(d, c) \cup {r.recommended_product : r \in CustRows(existing, c)}
                seg     == {r \in d : r.segment = first.segment}
                pool    == ({r.product_id : r \in seg} \cap InStockIds(bk)) \ exclude
                aff(p)  == L2Affinity(bk, c, ProdMeta(bk, p).l2)
                pop(p)  == LET G == {r \in seg : r.product_id = p}
                           IN  SumFn([r \in G |-> r.purchase_frequency], G)
                before(q, p) ==
                    \/ aff(q) > aff(p)
                    \/ aff(q) = aff(p) /\ pop(q) > pop(p)
                    \/ aff(q) = aff(p) /\ pop(q) = pop(p) /\ ProductIdx(q) < ProductIdx(p)
                slots   == topk - Cardinality({r \in existing : r.customer_id = c})
                take    == IF slots >= 0 THEN slots ELSE Max(0, Cardinality(pool) + slots)
            IN  { [customer_id |-> c, recommended_product |-> p,
                   cluster_id |-> first.cluster_id, segment |-> first.segment,
                   l2_category |-> ProdMeta(bk, p).l2, l3_category |-> ProdMeta(bk, p).l3,
                   trigger_product |-> "fallback",
                   support |-> [num |-> 0, den |-> 1], confidence |-> [num |-> 0, den |-> 1],
                   lift |-> 0,
                   score |-> FALLBACK_BASE + aff(p),
                   recommended_qty |-> 1] :
                  p \in {x \in pool : Cardinality({q \in pool : before(q, x)}) < take} }
          : c \in {x \in cs : CustRows(d, x) # {}} }

\* rank(ascending=False, method="first") within one customer: the rows in
\* every order the preceding sort by score can leave them in.
RECURSIVE ScoreOrders(_)
ScoreOrders(R) ==
    IF R = {} THEN {<<>>}
    ELSE UNION { { <<r>> \o s : s \in ScoreOrders(R \ {r}) }
               : r \in {x \in R : \A q \in R : x.score >= q.score} }

RECURSIVE RankedTables(_, _, _)
RankedTables(S, cs, topk) ==
    IF cs = {} THEN {{}}
    ELSE LET c == CHOOSE x \in cs : TRUE
         IN  { {s[i] @@ ("rank" :> i) : i \in {j \in 1..Len(s) : j <= topk}} \cup rest :
               s \in ScoreOrders(CustRows(S, c)), rest \in RankedTables(S, cs \ {c}, topk) }

InitRank ==
    /\ \E K \in SUBSET BasketKeys, oos \in {"none", "P3", "P4"} :
          /\ K # {} /\ Cardinality(K) <= MaxBasketRows
          /\ \E peer \in PeerConfigs :
                /\ basket = { BasketRow(k[1], k[2],
                                        IF k[1] = "C1" THEN "S" ELSE peer.segment,
                                        k[2] # oos) : k \in K }
                /\ clusters =
                     { [customer_id |-> "C1", cluster_id |-> "S_0", segment |-> "S"] }
                     \cup (IF peer.cluster_id = "none" THEN {}
                           ELSE { [customer_id |-> "C2", cluster_id |-> peer.cluster_id,
                                   segment |-> peer.segment] })
    /\ assoc \in AssocTables
    /\ TOP_K \in 1..MaxTopK
    /\ customers_with_recs = {}
    /\ out = {}
    /\ recommendations = {}
    /\ pc_rank = "start"
    /\ AssocIdle
    /\ FeedbackIdle
    /\ TrainIdle
    /\ InferIdle
    /\ UnitIdle
    /\ DefaultConfig

\* lines 397-502: the rule loop and the first sort + drop_duplicates
RankMainLoop ==
    /\ pc_rank = "start"
    /\ LET d     == RankDf(basket, clusters)
           cands == UNION { CustomerCandidates(d, basket, assoc, c)
                            : c \in {r.customer_id : r \in d} }
       IN  /\ customers_with_recs' = {r.customer_id : r \in cands}
           /\ out' \in DropDuplicates(cands)
    /\ pc_rank' = "looped"
    /\ UNCHANGED <<basket, assoc, TOP_K, recommendations, clusters, not_rank>>

\* lines 508-549: fallback for uncovered customers, then the top-up
RankFallback ==
    /\ pc_rank = "looped"
    /\ LET d         == RankDf(basket, clusters)
           uncovered == {r.customer_id : r \in d} \ customers_with_recs
           out1      == out \cup category_aware_fallback(d, basket, uncovered, out, TOP_K)
           needs     == {c \in {r.customer_id : r \in out1} :
                           Cardinality(CustRows(out1, c)) < TOP_K}
       IN  out' = out1 \cup category_aware_fallback(d, basket, needs, out1, TOP_K)
    /\ pc_rank' = "filled"
    /\ UNCHANGED <<basket, assoc, TOP_K, customers_with_recs, recommendations,
                   clusters, not_rank>>

\* lines 554-572: final sort, drop_duplicates, rank, cap, save
RankFinal ==
    /\ pc_rank = "filled"
    /\ \E kept \in DropDuplicates(out) :
          recommendations' \in RankedTables(kept, {r.customer_id : r \in kept}, TOP_K)
    /\ pc_rank' = "done"
    /\ UNCHANGED <<basket, assoc, TOP_K, customers_with_recs, out, clusters, not_rank>>

-----------------------------------------------------------------------------
(* S5: scripts/feedback.py *)

MaxFeedbackRows == 2

WEIGHT_HIGH           == 1300     \* 1.3, per mille
WEIGHT_MED_POS        == 1000
WEIGHT_MED_NEG        == 400
WEIGHT_LOW            == 100
FEEDBACK_RECENCY_DAYS == 365
NaT                   == 0 - 1    \* an absent or unparseable feedback_date

NEGATIVE_REASON_CODES ==
    {"not_relevant", "wrong_category", "already_have_contract",
     "customer_not_interested", "price_too_high", "out_of_territory",
     "competitor_product", "not_applicable", "poor_quality_signal"}
POSITIVE_REASON_CODES ==
    {"good_fit", "high_potential", "customer_interested",
     "complements_existing", "strong_affinity", "recommended_and_sold"}

\* What load_feedback returns for None.
NoFeedback == [present |-> FALSE, rows |-> {}]

\* feedback.csv: whether the object exists, whether read_csv can parse it,
\* its header and its rows; a row holds an empty cell (NaT for the date) in
\* every column the header lacks.
FeedbackColumns ==
    {"customer_id", "product_id", "rating", "reason_code", "sentiment", "feedback_date"}
MissingFile == [present |-> FALSE, readable |-> FALSE, columns |-> {}, rows |-> {}]

\* A CSV cell is held as the sequence of its characters; <<>> is an empty
\* cell (read by pandas as NaN, which resolve_weight turns into "").
\* str.strip(): leading and trailing whitespace removed.
RECURSIVE str_strip(_)
str_strip(x) ==
    LET whitespace == {" ", "\t", "\n", "\r"}
    IN  IF x = <<>> THEN x
        ELSE IF Head(x) \in whitespace THEN str_strip(Tail(x))
        ELSE IF x[Len(x)] \in whitespace THEN str_strip(SubSeq(x, 1, Len(x) - 1))
        ELSE x

\* str.lower(): every cased character replaced by its lowercase form.
str_lower(x) ==
    LET upper == <<"A", "B", "C", "D", "E", "F", "G", "H", "I", "J", "K", "L", "M",
                   "N", "O", "P", "Q", "R", "S", "T", "U", "V", "W", "X", "Y", "Z">>
        lower == <<"a", "b", "c", "d", "e", "f", "g", "h", "i", "j", "k", "l", "m",
                   "n", "o", "p", "q", "r", "s", "t", "u", "v", "w", "x", "y", "z">>
        low(ch) == IF \E i \in 1..26 : upper[i] = ch
                   THEN lower[CHOOSE i \in 1..26 : upper[i] = ch] ELSE ch
    IN  [i \in 1..Len(x) |-> low(x[i])]

\* str(x).strip().lower() if pd.notna(x) else "", as the string the
\* characters spell
StripLower(x) ==
    LET RECURSIVE text(_)
        text(y) == IF y = <<>> THEN "" ELSE Head(y) \o text(Tail(y))
    IN  text(str_lower(str_strip(x)))

\* load_feedback without the validation of the required columns: what
\* BypassUnchanged guards against.
load_feedback_any_columns(file, t) ==
    IF ~file.present \/ ~file.readable THEN NoFeedback
    ELSE IF file.rows = {} THEN NoFeedback
    ELSE LET cutoff == t - FEEDBACK_RECENCY_DAYS
             kept   == IF "feedback_date" \in file.columns
                       THEN {r \in file.rows :
                               r.feedback_date = NaT \/ r.feedback_date >= cutoff}
                       ELSE file.rows
         IN  IF kept = {} THEN NoFeedback ELSE [present |-> TRUE, rows |-> kept]

\* load_feedback: None when the file is missing or unreadable, empty, without
\* a required column, or empty after the recency filter; the cutoff is taken
\* from the wall clock t.
load_feedback(file, t) ==
    IF ~file.present \/ ~file.readable THEN NoFeedback     \* except Exception
    ELSE IF file.rows = {} THEN NoFeedback
    ELSE IF ~({"customer_id", "product_id", "rating"} \subseteq file.columns)
    THEN NoFeedback
    ELSE LET cutoff == t - FEEDBACK_RECENCY_DAYS
             kept   == IF "feedback_date" \in file.columns
                       THEN {r \in file.rows :
                               r.feedback_date = NaT \/ r.feedback_date >= cutoff}
                       ELSE file.rows
         IN  IF kept = {} THEN NoFeedback ELSE [present |-> TRUE, rows |-> kept]

\* resolve_weight with the reason code consulted before the sentiment: what
\* WeightTable guards against.
resolve_weight_reason_first(rating, reason_code, sentiment) ==
    LET r    == StripLower(rating)
        code == StripLower(reason_code)
        sent == StripLower(sentiment)
    IN  IF r = "high" THEN WEIGHT_HIGH
        ELSE IF r = "low" THEN WEIGHT_LOW
        ELSE IF r = "medium"
             THEN IF code \in NEGATIVE_REASON_CODES THEN WEIGHT_MED_NEG
                  ELSE IF code \in POSITIVE_REASON_CODES THEN WEIGHT_MED_POS
                  ELSE IF sent = "negative" THEN WEIGHT_MED_NEG
                  ELSE WEIGHT_MED_POS
        ELSE 1000

resolve_weight(rating, reason_code, sentiment) ==
    LET r    == StripLower(rating)
        code == StripLower(reason_code)
        sent == StripLower(sentiment)
    IN  IF r = "high" THEN WEIGHT_HIGH
        ELSE IF r = "low" THEN WEIGHT_LOW
        ELSE IF r = "medium"
             THEN IF sent = "positive" THEN WEIGHT_MED_POS
                  ELSE IF sent = "negative" THEN WEIGHT_MED_NEG
                  ELSE IF code \in NEGATIVE_REASON_CODES THEN WEIGHT_MED_NEG
                  ELSE IF code \in POSITIVE_REASON_CODES THEN WEIGHT_MED_POS
                  ELSE WEIGHT_MED_POS
        ELSE 1000

RowWeight(r) == resolve_weight(r.rating, r.reason_code, r.sentiment)

\* round(condition.sum() / total, 4), in units of 1e-4
Rate(S, total) == IF total > 0 THEN RoundHalfEven(10000 * Cardinality(S), total) ELSE 0

\* build_feedback_summary(feedback, reco) as written at wall-clock time t.
\* Rates are in units of 1e-4, suggested thresholds in units of 1e-3; the
\* by_l2_category and reason_code_distribution blocks are left out.
build_feedback_summary(fb, reco, t) ==
    LET total      == Cardinality(fb)
        acceptance == Rate({r \in fb : RowWeight(r) >= WEIGHT_MED_POS}, total)
        joined(r)  == {q \in reco : q.customer_id = r.customer_id
                                    /\ q.recommended_product = r.product_id}
        segs       == UNION { {q.segment : q \in joined(r)} : r \in fb }
        by_seg(g)  == LET G == {r \in fb : \E q \in joined(r) : q.segment = g}
                      IN  [n |-> Cardinality(G),
                           acceptance_rate |->
                              Rate({r \in G : RowWeight(r) >= WEIGHT_MED_POS}, Cardinality(G))]
    IN  [generated_at        |-> t,
         total_feedback_rows |-> total,
         acceptance_rate     |-> acceptance,
         high_rate           |-> Rate({r \in fb : StripLower(r.rating) = "high"}, total),
         medium_positive_rate |-> Rate({r \in fb : RowWeight(r) = WEIGHT_MED_POS}, total),
         medium_negative_rate |-> Rate({r \in fb : RowWeight(r) = WEIGHT_MED_NEG}, total),
         low_rate            |-> Rate({r \in fb : StripLower(r.rating) = "low"}, total),
         by_segment          |-> [g \in segs |-> by_seg(g)],
         MIN_CONFIDENCE      |->
            IF acceptance < 5000
            THEN RoundHalfEven(Min(20000, 5000 + (5000 - acceptance) * 3), 100)
            ELSE IF acceptance > 8000
            THEN RoundHalfEven(Max(2000, 5000 - (acceptance - 8000)), 100)
            ELSE 50,
         SCORE_CUTOFF        |->
            IF acceptance < 5000
            THEN RoundHalfEven(Min(200000, SCORE_CUTOFF + 20000), 1000)
            ELSE IF acceptance > 8000
            THEN RoundHalfEven(Max(40000, SCORE_CUTOFF - 10000), 1000)
            ELSE RoundHalfEven(SCORE_CUTOFF, 1000)]

\* The de-duplication sorted the other way, keeping a row of the least date:
\* what LatestRatingWins guards against.
RECURSIVE OldestFeedback(_, _)
OldestFeedback(fb, keys) ==
    IF keys = {} THEN {{}}
    ELSE LET k    == CHOOSE x \in keys : TRUE
             G    == {r \in fb : <<r.customer_id, r.product_id>> = k}
             best == {r \in G : \A q \in G : r.feedback_date <= q.feedback_date}
         IN  { {r} \cup rest : r \in best, rest \in OldestFeedback(fb, keys \ {k}) }

\* sort_values("feedback_date", ascending=False).drop_duplicates(customer, product):
\* one row per key, a row of the greatest date (NaT sorts last); rows of equal
\* date may come out of the sort in either order.
RECURSIVE LatestFeedback(_, _)
LatestFeedback(fb, keys) ==
    IF keys = {} THEN {{}}
    ELSE LET k    == CHOOSE x \in keys : TRUE
             G    == {r \in fb : <<r.customer_id, r.product_id>> = k}
             best == {r \in G : \A q \in G : r.feedback_date >= q.feedback_date}
         IN  { {r} \cup rest : r \in best, rest \in LatestFeedback(fb, keys \ {k}) }

\* Calibration that keeps the S4 rank instead of ranking again: what
\* RanksContiguous guards against.
apply_calibration_keep_rank(reco, latest, topk) ==
    LET weight(r) ==
            LET M == {f \in latest : f.customer_id = r.customer_id
                                     /\ f.product_id = r.recommended_product}
            IN  IF M = {} THEN 1000 ELSE RowWeight(CHOOSE f \in M : TRUE)
    IN  { [r EXCEPT !.score = (r.score * weight(r)) \div 1000] :
          r \in {x \in reco : x.score * weight(x) >= SCORE_CUTOFF * 1000 /\ x.rank <= topk} }

\* Calibration that keeps the rows whose score fell below SCORE_CUTOFF: what
\* CalibrationCuts guards against.
apply_calibration_no_cutoff(reco, latest, topk) ==
    LET weight(r) ==
            LET M == {f \in latest : f.customer_id = r.customer_id
                                     /\ f.product_id = r.recommended_product}
            IN  IF M = {} THEN 1000 ELSE RowWeight(CHOOSE f \in M : TRUE)
        new(r) == (r.score * weight(r)) \div 1000
        pos(r) == 1 + Cardinality({q \in reco :
                          /\ q.customer_id = r.customer_id
                          /\ \/ new(q) > new(r)
                             \/ new(q) = new(r) /\ q.rank < r.rank})
    IN  { [r EXCEPT !.score = new(r), !.rank = pos(r)] : r \in {x \in reco : pos(x) <= topk} }

\* Calibration with an inner join: the rows without feedback are lost.  What
\* CalibrationFrameAboveCutoff guards against.
apply_calibration_inner_join(reco, latest, topk) ==
    LET rated  == { r \in reco : \E f \in latest : f.customer_id = r.customer_id
                                                  /\ f.product_id = r.recommended_product }
        weight(r) ==
            RowWeight(CHOOSE f \in latest : f.customer_id = r.customer_id
                                            /\ f.product_id = r.recommended_product)
        kept   == { r \in rated : r.score * weight(r) >= SCORE_CUTOFF * 1000 }
        new(r) == (r.score * weight(r)) \div 1000
        pos(r) == 1 + Cardinality({q \in kept :
                          /\ q.customer_id = r.customer_id
                          /\ \/ new(q) > new(r)
                             \/ new(q) = new(r) /\ q.rank < r.rank})
    IN  { [r EXCEPT !.score = new(r), !.rank = pos(r)] : r \in {x \in kept : pos(x) <= topk} }

\* apply_calibration(reco, feedback) for one outcome `latest` of the feedback
\* de-duplication: weight, cut below SCORE_CUTOFF, re-rank, cap at topk.
apply_calibration(reco, latest, topk) ==
    LET weight(r) ==
            LET M == {f \in latest : f.customer_id = r.customer_id
                                     /\ f.product_id = r.recommended_product}
            IN  IF M = {} THEN 1000 ELSE RowWeight(CHOOSE f \in M : TRUE)
        kept   == { r \in reco : r.score * weight(r) >= SCORE_CUTOFF * 1000 }
        new(r) == (r.score * weight(r)) \div 1000
        \* rank(method="first"): ties keep the order of the frame, which
        \* recommendations.csv holds sorted by (customer_id, rank)
        pos(r) == 1 + Cardinality({q \in kept :
                          /\ q.customer_id = r.customer_id
                          /\ \/ new(q) > new(r)
                             \/ new(q) = new(r) /\ q.rank < r.rank})
    IN  { [r EXCEPT !.score = new(r), !.rank = pos(r)] : r \in {x \in kept : pos(x) <= topk} }

\* feedback.main, run at wall-clock time t on the feedback file `file`.
FeedbackMain(file, t) ==
    /\ feedback' = file
    /\ now' = t
    /\ LET fb == load_feedback(file, t)
       IN  IF ~fb.present
           THEN /\ final' = recommendations      \* save_and_publish(reco, {}):
                /\ summary' = summary            \* no summary object is written
           ELSE /\ summary' = {build_feedback_summary(fb.rows, recommendations, t)}
                /\ \E latest \in LatestFeedback(fb.rows,
                          {<<r.customer_id, r.product_id>> : r \in fb.rows}) :
                      final' = apply_calibration(recommendations, latest, TOP_K)
    /\ pc_fb' = "done"

\* The feedback files offered to the run that follows S4: absent, empty, or
\* ratings of customer C1 on the products S4 can recommend to it.
Today == 1000
FeedbackRow(c, p, rating, reason, sentiment, date) ==
    [customer_id |-> c, product_id |-> p, rating |-> rating,
     reason_code |-> reason, sentiment |-> sentiment, feedback_date |-> date]

\* The spellings of a word (given in lowercase) found in feedback cells.
Cell(word, style) ==
    LET lower == <<"a", "d", "e", "f", "g", "h", "i", "l", "m", "n", "o", "p",
                   "r", "s", "t", "u", "v", "w">>
        upper == <<"A", "D", "E", "F", "G", "H", "I", "L", "M", "N", "O", "P",
                   "R", "S", "T", "U", "V", "W">>
        up(ch) == IF \E i \in 1..Len(lower) : lower[i] = ch
                  THEN upper[CHOOSE i \in 1..Len(lower) : lower[i] = ch] ELSE ch
        caps  == [i \in 1..Len(word) |-> up(word[i])]
        title == [i \in 1..Len(word) |-> IF i = 1 THEN up(word[i]) ELSE word[i]]
    IN  CASE style = "lower"  -> word
          [] style = "upper"  -> caps
          [] style = "title"  -> title
          [] style = "padded" -> <<" ">> \o title \o <<" ">>
          [] style = "tabbed" -> <<"\t", " ">> \o caps \o <<"\n">>

CellStyles == {"lower", "upper", "title", "padded", "tabbed"}

High     == <<"h", "i", "g", "h">>
Low      == <<"l", "o", "w">>
Medium   == <<"m", "e", "d", "i", "u", "m">>
Positive == <<"p", "o", "s", "i", "t", "i", "v", "e">>
Negative == <<"n", "e", "g", "a", "t", "i", "v", "e">>
GoodFit  == <<"g", "o", "o", "d", "_", "f", "i", "t">>
NotRelevant == <<"n", "o", "t", "_", "r", "e", "l", "e", "v", "a", "n", "t">>

FeedbackFiles(U) ==
    {MissingFile} \cup
    { [present |-> TRUE, readable |-> TRUE, columns |-> FeedbackColumns, rows |-> R] :
        R \in { X \in SUBSET U :
                  /\ Cardinality(X) <= MaxFeedbackRows
                  /\ \A r \in X, q \in X :
                        r.customer_id = q.customer_id /\ r.product_id = q.product_id
                           => r = q } }

RankFeedbackRows ==
    { FeedbackRow("C1", "P3", Cell(Low, "title"), <<>>, <<>>, Today),
      FeedbackRow("C1", "P4", Cell(Low, "padded"), <<>>, <<>>, Today),
      FeedbackRow("C1", "P4", Cell(High, "title"), <<>>, <<>>, Today) }

\* S5 runs on the file S4 wrote.
RankFeedback ==
    /\ pc_rank = "done"
    /\ pc_fb = "idle"
    /\ \E file \in FeedbackFiles(RankFeedbackRows) : FeedbackMain(file, Today)
    /\ UNCHANGED <<previous, not_fb>>

NextRank == RankMainLoop \/ RankFallback \/ RankFinal \/ RankFeedback

SpecRank == InitRank /\ [][NextRank]_vars

-----------------------------------------------------------------------------
(* S4 on a customer whose purchases span two categories *)

\* Customer C1 holds P1 (L2 A, L3 A1) and P3 (L2 B, L3 B1), its peer C2 of the
\* same cluster holds P2 (L2 A, L3 A2) and P4 (L2 B, L3 B1); P3 was bought 1
\* or 3 times against 2 for P1, so C1's share of L3 B1 is 1/3 or 3/5; the
\* purchases are of the reference date (recency_days 0) or as in BasketRow.
\* The rules have trigger P1 or P3 and target P2 or P4; two of them have
\* confidence 0.5, lift 1.2 and weighted support 0.075 and 0.1.
InitAffinity ==
    /\ \E K \in SUBSET (({"C1"} \X {"P1", "P3"}) \cup ({"C2"} \X {"P2", "P4"})),
          times \in {1, 3}, fresh \in BOOLEAN :
          /\ \E k \in K : k[1] = "C1"
          /\ basket = { [BasketRow(k[1], k[2], "S", TRUE) EXCEPT
                            !.purchase_frequency = IF k[2] = "P3" THEN times ELSE @,
                            !.recency_days = IF fresh THEN 0 ELSE @] : k \in K }
    /\ clusters = { [customer_id |-> c, cluster_id |-> "S_0", segment |-> "S"] :
                      c \in {"C1", "C2"} }
    /\ LET rule(a, b, ws) ==
               [RuleRow(a, b, "ok") EXCEPT !.lift = MIN_LIFT,
                                           !.weighted_support = [num |-> ws, den |-> 1000]]
           U == { rule("P1", "P4", 75), rule("P1", "P2", 100),
                  RuleRow("P1", "P4", "weak"), RuleRow("P3", "P4", "ok"),
                  RuleRow("P3", "P2", "weak") }
       IN  assoc \in { T \in SUBSET U :
                         /\ Cardinality(T) <= MaxRules
                         /\ \A r \in T, q \in T :
                               r.product_a = q.product_a /\ r.product_b = q.product_b
                                  => r = q }
    /\ TOP_K \in 1..MaxTopK
    /\ customers_with_recs = {}
    /\ out = {}
    /\ recommendations = {}
    /\ pc_rank = "start"
    /\ AssocIdle /\ FeedbackIdle /\ TrainIdle /\ InferIdle
    /\ UnitIdle
    /\ DefaultConfig

SpecAffinity == InitAffinity /\ [][NextRank]_vars

-----------------------------------------------------------------------------
(* S5 run, and run again, on one S4 output and one feedback file *)

LaterDays == 300      \* how much later than Today a run may read its clock

CalibrationFeedbackRows ==
    { FeedbackRow("C1", "P3", Cell(rating, "title"), <<>>, <<>>, d) :
        rating \in {Low, High}, d \in {Today - 200, NaT} }
    \cup { FeedbackRow("C1", "P4", Cell(Medium, "title"), <<>>,
                       Cell(Negative, "title"), Today - 200),
           FeedbackRow("C2", "P1", Cell(High, "padded"), Cell(GoodFit, "padded"),
                       <<>>, Today - 200) }

InitFeedback ==
    /\ basket = { BasketRow("C1", "P1", "S", TRUE), BasketRow("C2", "P3", "S", TRUE),
                  BasketRow("C2", "P4", "S", TRUE) }
    /\ clusters = { [customer_id |-> c, cluster_id |-> "S_0", segment |-> "S"] :
                    c \in {"C1", "C2"} }
    /\ assoc \in AssocTables
    /\ TOP_K \in 1..MaxTopK
    /\ customers_with_recs = {}
    /\ out = {}
    /\ recommendations = {}
    /\ pc_rank = "start"
    /\ AssocIdle /\ FeedbackIdle /\ TrainIdle /\ InferIdle
    /\ UnitIdle
    /\ DefaultConfig

\* The first run of S5 on the S4 output.
FeedbackRun ==
    /\ pc_rank = "done"
    /\ pc_fb = "idle"
    /\ \E file \in FeedbackFiles(CalibrationFeedbackRows), t \in {Today, Today + LaterDays} :
          FeedbackMain(file, t)
    /\ UNCHANGED <<previous, not_fb>>

\* S5 once more, on the same recommendations.csv and the same feedback file,
\* at the same or a later wall-clock time; `previous` keeps what the first run
\* published.
FeedbackRerun ==
    /\ pc_fb = "done"
    /\ previous = {}
    /\ previous' = {[final |-> final, summary |-> summary]}
    /\ \E t \in {x \in {Today, Today + LaterDays} : x >= now} : FeedbackMain(feedback, t)
    /\ UNCHANGED not_fb

NextFeedback == RankMainLoop \/ RankFallback \/ RankFinal \/ FeedbackRun \/ FeedbackRerun

SpecFeedback == InitFeedback /\ [][NextFeedback]_vars

-----------------------------------------------------------------------------
(* S5 on any recommendations.csv, any feedback file and any thresholds *)

MaxRecoRows == 3

\* A row of recommendations.csv before its rank is assigned.
RecoRow(c, p, score) ==
    [customer_id |-> c, recommended_product |-> p, cluster_id |-> "S_0", segment |-> "S",
     l2_category |-> "A", l3_category |-> "A1", trigger_product |-> "fallback",
     support |-> [num |-> 0, den |-> 1], confidence |-> [num |-> 0, den |-> 1],
     lift |-> 0, score |-> score, recommended_qty |-> 1]

\* The rows of a feedback file that has only the columns `columns`.
WithColumns(R, columns) ==
    { [customer_id   |-> IF "customer_id" \in columns THEN r.customer_id ELSE "",
       product_id    |-> IF "product_id" \in columns THEN r.product_id ELSE "",
       rating        |-> IF "rating" \in columns THEN r.rating ELSE <<>>,
       reason_code   |-> IF "reason_code" \in columns THEN r.reason_code ELSE <<>>,
       sentiment     |-> IF "sentiment" \in columns THEN r.sentiment ELSE <<>>,
       feedback_date |-> IF "feedback_date" \in columns THEN r.feedback_date ELSE NaT]
      : r \in R }

\* Feedback files: absent, unreadable, header only, without one column or
\* without the optional columns, holding only stale rows, and well-formed
\* files of recent ratings.
CalibrationFiles ==
    LET recent == { FeedbackRow("C1", "P3", Cell(Low, "title"), <<>>, <<>>, Today - 10),
                    FeedbackRow("C1", "P3", Cell(High, "upper"), <<>>, <<>>, NaT),
                    FeedbackRow("C1", "P4", Cell(Medium, "title"), Cell(NotRelevant, "lower"),
                                <<>>, Today - 10),
                    FeedbackRow("C1", "P4", Cell(High, "title"), <<>>, <<>>, Today - 10),
                    FeedbackRow("C2", "P1", Cell(Low, "padded"), <<>>, <<>>, Today - 10),
                    FeedbackRow("C2", "P2", Cell(High, "title"), Cell(GoodFit, "lower"),
                                <<>>, Today - 10) }
        stale  == { FeedbackRow("C1", "P3", Cell(Low, "title"), <<>>, <<>>,
                                Today - FEEDBACK_RECENCY_DAYS - 1) }
        one    == { FeedbackRow("C1", "P3", Cell(Low, "title"), <<>>, <<>>, Today - 10) }
    IN  FeedbackFiles(recent \cup stale)
        \cup { [present |-> TRUE, readable |-> FALSE, columns |-> {}, rows |-> {}] }
        \cup { [present |-> TRUE, readable |-> TRUE, columns |-> FeedbackColumns \ {col},
                rows |-> WithColumns(one, FeedbackColumns \ {col})] : col \in FeedbackColumns }
        \cup { [present |-> TRUE, readable |-> TRUE,
                columns |-> {"customer_id", "product_id", "rating"},
                rows |-> WithColumns(one, {"customer_id", "product_id", "rating"})] }

\* recommendations.csv as S4 leaves it: at most one row per customer and
\* product, ranked by descending score, at most TOP_K rows per customer.
InitCalibration ==
    /\ TOP_K \in 1..MaxTopK
    /\ \E K \in SUBSET {<<"C1", "P3">>, <<"C1", "P4">>, <<"C2", "P1">>} :
          /\ Cardinality(K) <= MaxRecoRows
          /\ \E score \in [K -> {500000, 200000, 100000}] :
                recommendations \in
                    RankedTables({RecoRow(k[1], k[2], score[k]) : k \in K},
                                 {k[1] : k \in K}, TOP_K)
    /\ MIN_CONFIDENCE \in {50, 100}
    /\ SCORE_CUTOFF \in {30000, 80000, 250000}
    /\ basket = {} /\ assoc = {} /\ customers_with_recs = {} /\ out = {}
    /\ pc_rank = "done"
    /\ clusters = {}
    /\ AssocIdle /\ FeedbackIdle /\ TrainIdle /\ InferIdle /\ UnitIdle

Calibrate ==
    /\ pc_rank = "done"
    /\ pc_fb = "idle"
    /\ \E file \in CalibrationFiles : FeedbackMain(file, Today)
    /\ UNCHANGED <<previous, not_fb>>

SpecCalibration == InitCalibration /\ [][Calibrate]_vars

-----------------------------------------------------------------------------
(* S5 on a feedback file that rates one recommendation several times *)

MaxRepeats == 3

\* Feedback files in which a (customer, product) may be rated more than once:
\* on different days, twice on one day, and without a date; with and without
\* the feedback_date column.
RepeatedFiles ==
    LET U == { FeedbackRow("C1", "P3", Cell(Low, "title"), <<>>, <<>>, Today - 10),
               FeedbackRow("C1", "P3", Cell(High, "title"), <<>>, <<>>, Today - 5),
               FeedbackRow("C1", "P3", Cell(Medium, "title"), <<>>, <<>>, Today - 5),
               FeedbackRow("C1", "P3", Cell(Medium, "title"), Cell(NotRelevant, "lower"),
                           <<>>, NaT),
               FeedbackRow("C1", "P4", Cell(High, "title"), <<>>, <<>>, Today - 10) }
        R == { X \in SUBSET U : X # {} /\ Cardinality(X) <= MaxRepeats }
    IN  { [present |-> TRUE, readable |-> TRUE, columns |-> FeedbackColumns, rows |-> X] :
            X \in R }
        \cup { [present |-> TRUE, readable |-> TRUE,
                columns |-> FeedbackColumns \ {"feedback_date"},
                rows |-> WithColumns(X, FeedbackColumns \ {"feedback_date"})] : X \in R }

CalibrateRepeated ==
    /\ pc_rank = "done"
    /\ pc_fb = "idle"
    /\ \E file \in RepeatedFiles : FeedbackMain(file, Today)
    /\ UNCHANGED <<previous, not_fb>>

SpecRepeated == InitCalibration /\ [][CalibrateRepeated]_vars

-----------------------------------------------------------------------------
(* S5: resolve_weight on one feedback row *)

\* The cells of one feedback row: every spelling of the ratings, sentiments
\* and reason codes, an empty cell, and words resolve_weight does not know.
InitWeight ==
    /\ LET ratings    == {<<>>, <<"4">>, <<"h", "i", " ", "g", "h">>}
                          \cup {Cell(w, st) : w \in {High, Low, Medium}, st \in CellStyles}
           reasons    == {<<>>, <<"o", "t", "h", "e", "r">>}
                          \cup {Cell(w, st) : w \in {NotRelevant, GoodFit},
                                              st \in {"lower", "tabbed"}}
           sentiments == {<<>>, <<"m", "i", "x", "e", "d">>}
                          \cup {Cell(w, st) : w \in {Positive, Negative},
                                              st \in {"lower", "padded", "upper"}}
       IN  fb_row \in [rating : ratings, reason_code : reasons, sentiment : sentiments]
    /\ feedback_weight = 0
    /\ pc_weight = "call"
    /\ clusters = {}
    /\ AssocIdle /\ RankIdle /\ FeedbackIdle /\ TrainIdle /\ InferIdle /\ BasketIdle
    /\ CountsIdle /\ executions = <<>>
    /\ DefaultConfig

\* feedback.apply(lambda r: resolve_weight(...), axis=1) on the row
ResolveWeight ==
    /\ pc_weight = "call"
    /\ feedback_weight' = RowWeight(fb_row)
    /\ pc_weight' = "returned"
    /\ UNCHANGED <<fb_row, not_weight>>

SpecWeight == InitWeight /\ [][ResolveWeight]_vars

-----------------------------------------------------------------------------
(* S1: scripts/market_basket.py *)

MaxBasketInvoices == 3

RECENCY_CUTOFF_DAYS == 730

\* invoice.csv: invoice I<i> is one line of one customer for one product on
\* one date; a date that to_datetime cannot parse is NaT.
InvoiceFiles ==
    LET lines == {<<"C1", "P1">>, <<"C1", "P2">>, <<"C2", "P1">>}
    IN  UNION { { { [invoice_id |-> i, customer_id |-> f[i].k[1], product_id |-> f[i].k[2],
                     invoice_date |-> f[i].d] : i \in 1..n } :
                  f \in [1..n -> [k : lines, d : {NaT, 100, 800, 1600}]] }
                : n \in 0..MaxBasketInvoices }

\* The reference date read from the wall clock instead: what
\* RecencyFollowsReference guards against.
RefDateWallClock(inv) == Today

\* invoices["invoice_date"].max() after dropna: NaT for an empty frame
RefDate(inv) ==
    LET dated == {r \in inv : r.invoice_date # NaT}
    IN  IF dated = {} THEN NaT
        ELSE CHOOSE d \in {r.invoice_date : r \in dated} :
                 \A r \in dated : r.invoice_date <= d

\* market_basket.main on invoice.csv `inv`: the reference date, whether the
\* run raised, and market_basket.csv.  Of the columns of the output the
\* customer, the product, purchase_frequency and recency_days are kept.
market_basket_main(inv, min_order_count) ==
    LET ref    == RefDate(inv)
        dated  == {r \in inv : r.invoice_date # NaT}
        recent == {r \in dated : r.invoice_date >= ref - RECENCY_CUTOFF_DAYS}
        \* groupby("customer_id")["invoice_date"].nunique()
        invoice_counts(c) ==
            Cardinality({r.invoice_date : r \in {x \in recent : x.customer_id = c}})
        d      == {r \in recent : invoice_counts(r.customer_id) >= min_order_count}
        keys   == {<<r.customer_id, r.product_id>> : r \in d}
        G(k)   == {r \in d : r.customer_id = k[1] /\ r.product_id = k[2]}
        last(k) == CHOOSE x \in {r.invoice_date : r \in G(k)} :
                       \A r \in G(k) : r.invoice_date <= x
    IN  IF recent = {} \/ d = {}
        THEN [raised |-> TRUE, ref_date |-> ref, grouped |-> {}]
        ELSE [raised |-> FALSE, ref_date |-> ref,
              grouped |-> { [customer_id |-> k[1], product_id |-> k[2],
                             purchase_frequency |->
                                 Cardinality({r.invoice_date : r \in G(k)}),
                             recency_days |-> ref - last(k)] : k \in keys }]

InitBasket ==
    /\ invoice_csv \in InvoiceFiles
    /\ MIN_ORDER_COUNT \in 1..2
    /\ ref_date = NaT
    /\ grouped = {}
    /\ mb_previous = {}
    /\ pc_mb = "start"
    /\ clusters = {}
    /\ AssocIdle /\ RankIdle /\ FeedbackIdle /\ TrainIdle /\ InferIdle /\ WeightIdle
    /\ CountsIdle /\ executions = <<>>
    /\ DefaultConfig

\* One run of S1.
MarketBasket ==
    /\ pc_mb = "start"
    /\ LET run == market_basket_main(invoice_csv, MIN_ORDER_COUNT)
       IN  /\ ref_date' = run.ref_date
           /\ grouped' = run.grouped
           /\ pc_mb' = IF run.raised THEN "failed" ELSE "done"
    /\ UNCHANGED <<invoice_csv, MIN_ORDER_COUNT, mb_previous, not_mb>>

\* S1 once more after one of the most recent invoices has been taken out of
\* invoice.csv; mb_previous keeps the input and the output of the first run.
MarketBasketWithoutLatest ==
    /\ pc_mb = "done"
    /\ mb_previous = {}
    /\ mb_previous' = {[invoice_csv |-> invoice_csv, ref_date |-> ref_date,
                         grouped |-> grouped]}
    /\ \E latest \in {r \in invoice_csv : r.invoice_date = ref_date} :
          /\ invoice_csv' = invoice_csv \ {latest}
          /\ LET run == market_basket_main(invoice_csv', MIN_ORDER_COUNT)
             IN  /\ ref_date' = run.ref_date
                 /\ grouped' = run.grouped
                 /\ pc_mb' = IF run.raised THEN "failed" ELSE "done"
    /\ UNCHANGED <<MIN_ORDER_COUNT, not_mb>>

NextBasket == MarketBasket \/ MarketBasketWithoutLatest

SpecBasket == InitBasket /\ [][NextBasket]_vars

-----------------------------------------------------------------------------
(* S2: scripts/train_clustering.py *)

MaxSegCustomers == 6
MaxSmallSegment == 2
MaxMaxK         == 3

ELBOW_THRESHOLD == 10

\* The input universe: segment "S" with up to MaxSegCustomers customers and
\* segment "T" with up to MaxSmallSegment, each customer with one of three
\* purchase profiles over the L2 categories A and B, and an RFM score.
TrainRows(seg, n, pattern, rfm) ==
    UNION { LET c    == seg \o ToString(i)
                prof == IF pattern = "uniform" THEN "a"
                        ELSE IF pattern = "alt" THEN (IF i % 2 = 1 THEN "a" ELSE "b")
                        ELSE (IF i % 3 = 1 THEN "a" ELSE IF i % 3 = 2 THEN "b" ELSE "ab")
                row(cat, q) ==
                    [customer_id |-> c, segment |-> seg, l2_category |-> cat,
                     total_quantity |-> q,
                     rfm_recency_score |-> IF rfm = "flat" THEN 0 ELSE i % 2]
            IN  IF prof = "a" THEN {row("A", 2)}
                ELSE IF prof = "b" THEN {row("B", 2)}
                ELSE {row("A", 1), row("B", 1)}
          : i \in 1..n }

SegmentOrder == <<"S", "T">>      \* groupby("segment") visits segments in this order
FeatureOrder == <<"l2_A", "l2_B", "rfm_recency_score">>

SegCustomers(sdf) == {r.customer_id : r \in sdf}

\* One cell of the merged feature frame, as an exact ratio.
FeatureValue(sdf, c, col) ==
    LET R == {r \in sdf : r.customer_id = c}
        t == SumFn([r \in R |-> r.total_quantity], R)
        G(cat) == {r \in R : r.l2_category = cat}
    IN  IF col = "rfm_recency_score"
        THEN [num |-> (CHOOSE r \in R : TRUE).rfm_recency_score, den |-> 1]
        ELSE LET cat == IF col = "l2_A" THEN "A" ELSE "B"
             IN  [num |-> SumFn([r \in G(cat) |-> r.total_quantity], G(cat)),
                  den |-> IF t = 0 THEN 1 ELSE t]

SameValue(x, y) == x.num * y.den = y.num * x.den

\* build_feature_matrix: the columns of X after the zero-variance columns are
\* dropped; "raise" when no proportion group is configured.
build_feature_matrix(sdf, groups) ==
    IF "l2_qty" \notin groups THEN [raised |-> TRUE, cols |-> <<>>]
    ELSE LET has(col) ==
                 IF col = "rfm_recency_score" THEN "rfm" \in groups
                 ELSE \E r \in sdf : "l2_" \o r.l2_category = col
             varies(col) ==
                 \E c \in SegCustomers(sdf), d \in SegCustomers(sdf) :
                    ~SameValue(FeatureValue(sdf, c, col), FeatureValue(sdf, d, col))
             keep(col) == has(col) /\ varies(col)
         IN  [raised |-> FALSE, cols |-> SelectSeq(FeatureOrder, keep)]

\* The scan of elbow_k over the inertias of k = 2..effective_max_k.
RECURSIVE ElbowScan(_, _, _)
ElbowScan(inertias, i, effective_max_k) ==
    IF i > Len(inertias) - 1 THEN effective_max_k
    ELSE IF inertias[i] = 0 THEN effective_max_k
    ELSE IF (inertias[i] - inertias[i+1]) * 100 < ELBOW_THRESHOLD * inertias[i]
         THEN 2 + i
         ELSE ElbowScan(inertias, i + 1, effective_max_k)

elbow_k(n, max_k, inertias) ==
    IF n < 4 THEN 1
    ELSE IF n < 6 THEN 2
    ELSE LET effective_max_k == Min(max_k, n - 1)
         IN  IF effective_max_k < 2 THEN 1 ELSE ElbowScan(inertias, 1, effective_max_k)

\* The inertia lists KMeans may report for k = 2..effective_max_k.
InertiaLists(n, max_k) ==
    LET len == IF n < 6 THEN 0 ELSE Max(0, Min(max_k, n - 1) - 1)
    IN  [1..len -> {0, 80, 95, 100}]

\* The labelings KMeans(k).fit_predict may return: a label in 0..k-1 for each
\* customer, equal for customers whose feature rows are equal.
KMeansLabels(sdf, cols, k) ==
    LET custs   == SegCustomers(sdf)
        X       == [c \in custs |-> [j \in 1..Len(cols) |-> FeatureValue(sdf, c, cols[j])]]
        same    == [c \in custs |->
                      {d \in custs : \A j \in 1..Len(cols) : SameValue(X[c][j], X[d][j])}]
        classes == {same[c] : c \in custs}
    IN  { [c \in custs |-> f[same[c]]] : f \in [classes -> 0..(k - 1)] }

InitTrain ==
    /\ \E nS \in 0..MaxSegCustomers, nT \in 0..MaxSmallSegment,
          pS \in {"uniform", "alt", "tri"}, pT \in {"uniform", "alt"},
          rfm \in {"flat", "varying"} :
          /\ nS + nT > 0
          /\ train_df = TrainRows("S", nS, pS, rfm) \cup TrainRows("T", nT, pT, rfm)
    /\ FEATURE_GROUPS \in {{"l2_qty"}, {"l2_qty", "rfm"}, {"rfm"}}
    /\ MIN_CLUSTER_CUSTOMERS \in {2, 4}
    /\ MAX_K \in 1..MaxMaxK
    /\ todo = SelectSeq(SegmentOrder, LAMBDA g : \E r \in train_df : r.segment = g)
    /\ cluster_outputs = {}
    /\ model_registry = {}
    /\ pc_train = "loop"
    /\ clusters = {}
    /\ AssocIdle /\ RankIdle /\ FeedbackIdle /\ InferIdle
    /\ UnitIdle
    /\ DefaultConfig

\* One iteration of the per-segment loop, lines 268-369.
TrainSegment ==
    /\ pc_train = "loop"
    /\ todo # <<>>
    /\ LET segment == Head(todo)
           sdf     == {r \in train_df : r.segment = segment}
           n       == Cardinality(SegCustomers(sdf))
           fm      == build_feature_matrix(sdf, FEATURE_GROUPS)
       IN  IF n < MIN_CLUSTER_CUSTOMERS
           THEN /\ cluster_outputs' = cluster_outputs \cup
                      { [customer_id |-> c, cluster_id |-> segment \o "_0",
                         segment |-> segment] : c \in SegCustomers(sdf) }
                /\ UNCHANGED model_registry
           ELSE IF fm.raised \/ fm.cols = <<>>
           THEN UNCHANGED <<cluster_outputs, model_registry>>     \* continue
           ELSE \E k \in {elbow_k(n, MAX_K, inertias) : inertias \in InertiaLists(n, MAX_K)} :
                      \E labels \in KMeansLabels(sdf, fm.cols, k) :
                        /\ cluster_outputs' = cluster_outputs \cup
                             { [customer_id |-> c,
                                cluster_id |-> segment \o "_" \o ToString(labels[c]),
                                segment |-> segment] : c \in SegCustomers(sdf) }
                        /\ model_registry' = model_registry \cup
                             { [segment |-> segment, n_customers |-> n, k |-> k,
                                feature_cols |-> fm.cols,
                                feature_groups |-> FEATURE_GROUPS] }
    /\ todo' = Tail(todo)
    /\ UNCHANGED <<train_df, FEATURE_GROUPS, MIN_CLUSTER_CUSTOMERS, MAX_K, pc_train,
                   clusters, not_train>>

\* After the loop, lines 371-395: fail when nothing was produced, else write
\* model_registry.json and customer_clusters.csv.
TrainSave ==
    /\ pc_train = "loop"
    /\ todo = <<>>
    /\ IF cluster_outputs = {}
       THEN /\ pc_train' = "failed"
            /\ UNCHANGED clusters
       ELSE /\ pc_train' = "saved"
            /\ clusters' = cluster_outputs
    /\ UNCHANGED <<train_df, FEATURE_GROUPS, MIN_CLUSTER_CUSTOMERS, MAX_K, todo,
                   cluster_outputs, model_registry, not_train>>

NextTrain == TrainSegment \/ TrainSave

SpecTrain == InitTrain /\ [][NextTrain]_vars

-----------------------------------------------------------------------------
(* S6: scripts/inference.py *)

MaxInstances == 2

\* JSON values of a request: a field is missing, null, or carries a value.
Missing(v) == [tag |-> "missing", val |-> v]
Null(v)    == [tag |-> "null", val |-> v]
Given(v)   == [tag |-> "value", val |-> v]

\* str.strip() on the spellings that occur in the requests
Strip(x) ==
    CASE x = " C1 " -> "C1"
      [] x = "  "   -> ""
      [] x = " S "  -> "S"
      [] OTHER      -> x

\* The estimators a model archive can hold for segment "S": feature columns,
\* the scaler's mean_ and scale_, and the cluster centres in scaled space.
SegmentModels ==
    { [segment |-> "S", feature_cols |-> cols, mean |-> <<0, 0>>, scale |-> <<1, 2>>,
       centroids |-> << <<0, 0>>, <<1, 1>> >>] :
      cols \in { <<"l2_A", "l2_B">>, <<"l2_B", "l2_A">> } }

PurchaseVectors ==
    { [k \in {} |-> 0], [l2_A |-> 3], [l2_B |-> 3], [l2_A |-> 3, l2_B |-> 1],
      [other |-> 5], [l2_B |-> 2, other |-> 9] }

\* Single requests, and batch requests that carry only an `instances` array
\* (of customer ids).
Requests ==
    [customer_id : {Missing(""), Null(""), Given(""), Given("  "), Given("C1"),
                    Given(" C1 "), Given("C9")},
     segment : {Missing(""), Null(""), Given(""), Given("S"), Given(" S "), Given("T")},
     purchase_vector : {Missing([k \in {} |-> 0]), Null([k \in {} |-> 0])}
                       \cup {Given(v) : v \in PurchaseVectors},
     instances : {Missing(<<>>)}]
    \cup { [NoRequest EXCEPT !.instances = Given(l)] :
            l \in UNION {[1..n -> {"C1", "C9"}] : n \in 1..MaxInstances} }

\* The final recommendations a container may find published.
ServedRow(c, p, rank) ==
    [customer_id |-> c, recommended_product |-> p, rank |-> rank,
     trigger_product |-> "fallback", score |-> FALLBACK_BASE, recommended_qty |-> 1,
     cluster_id |-> "S_0", segment |-> "S"]

PublishedTables ==
    { {}, {ServedRow("C1", "P3", 1)},
      {ServedRow("C1", "P3", 2), ServedRow("C1", "P4", 1), ServedRow("C2", "P1", 1)} }

\* cust_recs.sort_values("rank") ... to_dict(orient="records")
RECURSIVE SortByRank(_)
SortByRank(R) ==
    IF R = {} THEN <<>>
    ELSE LET r == CHOOSE x \in R : \A q \in R : x.rank <= q.rank
         IN  <<[rank |-> r.rank, product_id |-> r.recommended_product,
                trigger_product |-> r.trigger_product, score |-> r.score,
                recommended_qty |-> r.recommended_qty,
                cluster_id |-> r.cluster_id, segment |-> r.segment]>>
             \o SortByRank(R \ {r})

\* The vector with 1 where predict_fn puts 0: what RealtimeAssignment guards against.
FeatureVectorDefaultOne(feature_cols, purchase_vector) ==
    [j \in 1..Len(feature_cols) |->
        IF feature_cols[j] \in DOMAIN purchase_vector
        THEN purchase_vector[feature_cols[j]] ELSE 1]

\* [purchase_vector.get(col, 0) for col in feature_cols]
FeatureVector(feature_cols, purchase_vector) ==
    [j \in 1..Len(feature_cols) |->
        IF feature_cols[j] \in DOMAIN purchase_vector
        THEN purchase_vector[feature_cols[j]] ELSE 0]

\* kmeans.predict(scaler.transform(vector)): the index of the nearest centre,
\* the lowest one on a tie.  scale_ is 1 or 2, so twice the scaled coordinates
\* are integers and squared distances are compared exactly.
EstimatorLabel(m, vector) ==
    LET cols == 1..Len(m.feature_cols)
        dist(i) ==
            LET term == [j \in cols |->
                           ((vector[j] - m.mean[j]) - m.centroids[i][j] * m.scale[j])
                              * (2 \div m.scale[j])]
            IN  SumFn([j \in cols |-> term[j] * term[j]], cols)
        best == CHOOSE i \in 1..Len(m.centroids) :
                   \A q \in 1..Len(m.centroids) :
                      dist(i) < dist(q) \/ (dist(i) = dist(q) /\ i <= q)
    IN  best - 1

Raise(exception) ==
    [NoResponse EXCEPT !.outcome = "raise", !.exception = exception]
ErrorPayload(customer_id, segment) ==
    [NoResponse EXCEPT !.outcome = "return", !.customer_id = customer_id,
                       !.segment = segment, !.has_error = TRUE]

predict_fn(in, mdl) ==
    LET customer_id == IF in.customer_id.tag = "missing" THEN ""
                       ELSE IF in.customer_id.tag = "null" THEN "None"   \* str(None)
                       ELSE Strip(in.customer_id.val)
        segment     == IF in.segment.tag = "missing" THEN "" ELSE Strip(in.segment.val)
        cust_recs   == {r \in mdl.reco_df : r.customer_id = customer_id}
        seg_models  == {m \in mdl.models : m.segment = segment}
    IN  IF in.segment.tag = "null" THEN Raise("AttributeError")   \* None.strip()
        ELSE IF customer_id = "" THEN Raise("ValueError")
        ELSE IF cust_recs # {}
        THEN [NoResponse EXCEPT
                 !.outcome = "return", !.customer_id = customer_id,
                 !.segment = (CHOOSE r \in cust_recs : TRUE).segment,
                 !.cluster_id = (CHOOSE r \in cust_recs : TRUE).cluster_id,
                 !.source = "precomputed",
                 !.recommendations = SortByRank(cust_recs)]
        ELSE IF segment = "" THEN ErrorPayload(customer_id, "")
        ELSE IF in.purchase_vector.tag # "value" \/ DOMAIN in.purchase_vector.val = {}
        THEN ErrorPayload(customer_id, segment)
        ELSE IF seg_models = {} THEN ErrorPayload(customer_id, segment)
        ELSE LET seg_model == CHOOSE m \in seg_models : TRUE
                 vector    == FeatureVector(seg_model.feature_cols, in.purchase_vector.val)
                 label     == EstimatorLabel(seg_model, vector)
             IN  [NoResponse EXCEPT
                     !.outcome = "return", !.customer_id = customer_id,
                     !.segment = segment,
                     !.cluster_id = segment \o "_" \o ToString(label),
                     !.source = "realtime_assignment",
                     !.has_message = TRUE]

\* A handler that drops from the loaded table the rows it has served.
model_after_serving_once(in, mdl) ==
    [mdl EXCEPT !.reco_df = {r \in @ : in.customer_id.tag # "value"
                                         \/ r.customer_id # Strip(in.customer_id.val)}]

\* The dict model_fn returned, after a call of predict_fn on it: no statement
\* of predict_fn assigns to it or to an object in it, and none calls
\* _load_recommendations; the filtering, sorting and renaming of the table
\* and the scaler and estimator calls return new objects.
model_after(in, mdl) == mdl

InitInfer ==
    /\ final \in PublishedTables
    /\ reco_readable \in BOOLEAN
    /\ model_dir \in { [registry_present |-> TRUE, models |-> M] :
                         M \in {{}} \cup {{m} : m \in SegmentModels} }
                     \cup { [registry_present |-> FALSE, models |-> {}] }
    /\ model = [models |-> {}, reco_df |-> {}]
    /\ input_data = NoRequest
    /\ response = NoResponse
    /\ pc_inf = "starting"
    /\ feedback = MissingFile /\ now = 0 /\ summary = {} /\ previous = {} /\ pc_fb = "idle"
    /\ clusters = {}
    /\ AssocIdle /\ RankIdle /\ TrainIdle
    /\ UnitIdle
    /\ DefaultConfig

\* model_fn, once at container start: fails without model_registry.json;
\* a failed read of the recommendations leaves an empty table.
ModelFn ==
    /\ pc_inf = "starting"
    /\ IF ~model_dir.registry_present
       THEN /\ pc_inf' = "failed"
            /\ UNCHANGED model
       ELSE /\ pc_inf' = "serving"
            /\ model' = [models |-> model_dir.models,
                         reco_df |-> IF reco_readable THEN final ELSE {}]
    /\ UNCHANGED <<reco_readable, model_dir, input_data, response, not_inf>>

\* One request: input_fn parses it, predict_fn answers or raises.
PredictFn ==
    /\ pc_inf = "serving"
    /\ \E in \in Requests :
          /\ input_data' = in
          /\ response' = predict_fn(in, model)
          /\ model' = model_after(in, model)
    /\ UNCHANGED <<reco_readable, model_dir, pc_inf, not_inf>>

NextInfer == ModelFn \/ PredictFn

SpecInfer == InitInfer /\ [][NextInfer]_vars

-----------------------------------------------------------------------------
(* pipeline.py: the steps of the pipeline and the order the service runs them in *)

\* Executions started of the one pipeline definition (pipeline.start()).
MaxExecutions == 2

\* steps=[...] of Pipeline(...), by step name
PipelineSteps ==
    {"MarketBasket", "ClusteringTrain", "ClusteringRegister", "Associations",
     "Ranking", "FeedbackCalibration"}

\* depends_on=[...] of each step
depends_on(step) ==
    CASE step = "MarketBasket"        -> {}
      [] step = "ClusteringTrain"     -> {"MarketBasket"}
      [] step = "ClusteringRegister"  -> {"ClusteringTrain"}
      [] step = "Associations"        -> {"MarketBasket", "ClusteringTrain"}
      [] step = "Ranking"             -> {"MarketBasket", "ClusteringTrain", "Associations"}
      [] step = "FeedbackCalibration" -> {"Ranking"}

\* The steps whose properties a step reads: the source of a ProcessingInput or
\* TrainingInput, the model_data of the registered model.  The raw inputs
\* (customers, products, invoices) and feedback.csv are produced by no step.
step_inputs(step) ==
    CASE step = "MarketBasket"        -> {}
      [] step = "ClusteringTrain"     -> {"MarketBasket"}
      [] step = "ClusteringRegister"  -> {"ClusteringTrain"}
      [] step = "Associations"        -> {"MarketBasket", "ClusteringTrain"}
      [] step = "Ranking"             -> {"MarketBasket", "ClusteringTrain", "Associations"}
      [] step = "FeedbackCalibration" -> {"Ranking"}

\* FeedbackCalibration declared without its ProcessingInput and depends_on, as
\* if it fetched recommendations.csv at run time the way it fetches feedback.csv.
UpstreamFeedbackFromBucket(step) ==
    IF step = "FeedbackCalibration" THEN {} ELSE depends_on(step) \cup step_inputs(step)

\* The steps a step waits for: the service orders a step after those named
\* in depends_on and after those whose properties it references.
Upstream(step) == depends_on(step) \cup step_inputs(step)

InitPipeline ==
    /\ executions = <<>>
    /\ clusters = {}
    /\ AssocIdle /\ RankIdle /\ FeedbackIdle /\ TrainIdle /\ InferIdle
    /\ WeightIdle /\ BasketIdle /\ CountsIdle
    /\ DefaultConfig

\* pipeline.start().  A step of an execution has its status, and the steps of
\* the execution that had succeeded when its job was created (its inputs are
\* staged then).
StartExecution ==
    /\ Len(executions) < MaxExecutions
    /\ executions' = Append(executions,
                            [step \in PipelineSteps |->
                                [status |-> "Pending", completed |-> {}]])
    /\ UNCHANGED not_pipeline

\* The service creates the job of a step once every step it waits for has
\* succeeded.
StartStep ==
    \E e \in DOMAIN executions : \E step \in PipelineSteps :
        /\ executions[e][step].status = "Pending"
        /\ \A u \in Upstream(step) : executions[e][u].status = "Succeeded"
        /\ executions' =
              [executions EXCEPT ![e][step] =
                  [status    |-> "Executing",
                   completed |-> {u \in PipelineSteps :
                                     executions[e][u].status = "Succeeded"}]]
        /\ UNCHANGED not_pipeline

\* The job of the step ends: its script returned and its outputs are uploaded.
CompleteStep ==
    \E e \in DOMAIN executions : \E step \in PipelineSteps :
        /\ executions[e][step].status = "Executing"
        /\ executions' = [executions EXCEPT ![e][step].status = "Succeeded"]
        /\ UNCHANGED not_pipeline

\* The script of the step raises (or the job fails otherwise).
FailStep ==
    \E e \in DOMAIN executions : \E step \in PipelineSteps :
        /\ executions[e][step].status = "Executing"
        /\ executions' = [executions EXCEPT ![e][step].status = "Failed"]
        /\ UNCHANGED not_pipeline

\* After a failure the service may stop the steps of the execution that are
\* still running.
StopStep ==
    \E e \in DOMAIN executions : \E step \in PipelineSteps :
        /\ executions[e][step].status = "Executing"
        /\ \E u \in PipelineSteps : executions[e][u].status = "Failed"
        /\ executions' = [executions EXCEPT ![e][step].status = "Stopped"]
        /\ UNCHANGED not_pipeline

NextPipeline == StartExecution \/ StartStep \/ CompleteStep \/ FailStep \/ StopStep

SpecPipeline == InitPipeline /\ [][NextPipeline]_vars

-----------------------------------------------------------------------------
(* C1: every rule row S3 computes has 0 <= confidence <= 1, 0 <= support <= 1
   and pair_freq <= product_freq(A) <= total_baskets of its (segment,
   cluster); two rows of the sessionized table share a global_basket_id only
   when they belong to the same customer and the same session. *)
RuleBounds ==
    /\ \A r \in pair_counts :
          /\ r.confidence.den > 0 /\ r.support.den > 0
          /\ 0 <= r.confidence.num /\ r.confidence.num <= r.confidence.den
          /\ 0 <= r.support.num /\ r.support.num <= r.support.den
          /\ r.pair_freq <= r.product_freq
          /\ r.product_freq <= r.total_baskets
    /\ \A r \in df, q \in df :
          r.global_basket_id = q.global_basket_id
             => r.customer_id = q.customer_id /\ r.basket_id = q.basket_id

\* Two customers of one cluster each hold a basket with the same pair, and
\* the metrics have been computed.
RuleBoundsWitness ==
    /\ pc_assoc = "metrics"
    /\ \E r \in pair_counts : r.pair_freq >= 2
    /\ \E r \in df, q \in df :
          /\ r.customer_id # q.customer_id
          /\ r.cluster_id = q.cluster_id
          /\ r.basket_id = q.basket_id
-----------------------------------------------------------------------------
(* C2: every row S4 writes, from a rule or from the fallback/top-up,       *)
(* recommends a product the customer has not purchased and that is in      *)
(* stock, and a trigger other than "fallback" is a product the customer    *)
(* has purchased.                                                          *)
RecsValid ==
    \A r \in out \cup recommendations :
        /\ ~ \E b \in basket : b.customer_id = r.customer_id
                               /\ b.product_id = r.recommended_product
        /\ \E b \in basket : b.product_id = r.recommended_product /\ b.in_stock
        /\ r.trigger_product # "fallback"
              => \E b \in basket : b.customer_id = r.customer_id
                                   /\ b.product_id = r.trigger_product

\* S4 has finished with a rule row and a fallback row, after rejecting a rule
\* whose target the customer already owns and with a product out of stock.
RecsValidWitness ==
    /\ pc_rank = "done"
    /\ \E r \in recommendations : r.trigger_product # "fallback"
    /\ \E r \in recommendations : r.trigger_product = "fallback"
    /\ \E r \in assoc, c \in {b.customer_id : b \in basket} :
          /\ r.lift >= MIN_LIFT
          /\ \E k \in clusters : k.customer_id = c /\ k.cluster_id = r.cluster_id
          /\ {r.product_a, r.product_b} \subseteq {b.product_id : b \in CustRows(basket, c)}
    /\ \E b \in basket : ~b.in_stock

-----------------------------------------------------------------------------
(* C3: in recommendations.csv (S4) and in the final recommendations (S5),  *)
(* the ranks of each customer are exactly 1..N, one row per rank, with N   *)
(* the customer's row count and N <= TOP_K; also after S5 removed rows     *)
(* below SCORE_CUTOFF.                                                     *)
RanksOneToN(T) ==
    \A c \in {r.customer_id : r \in T} :
        LET R == CustRows(T, c)
        IN  /\ Cardinality(R) <= TOP_K
            /\ {r.rank : r \in R} = 1..Cardinality(R)
            /\ \A r \in R, q \in R : r.rank = q.rank => r = q

RanksContiguous ==
    /\ pc_rank = "done" => RanksOneToN(recommendations)
    /\ pc_fb = "done" => RanksOneToN(final)

\* S5 removed a customer's rank-1 row and the customer keeps another row.
RanksContiguousWitness ==
    /\ pc_fb = "done"
    /\ \E r \in recommendations :
          /\ r.rank = 1
          /\ ~ \E f \in final : f.customer_id = r.customer_id
                                /\ f.recommended_product = r.recommended_product
          /\ \E f \in final : f.customer_id = r.customer_id
    /\ \E r \in final, q \in final : r.customer_id # q.customer_id

-----------------------------------------------------------------------------
(* C6: given an associations table with a row whose pair_freq exceeds its  *)
(* product_freq, S4 refuses the input: it does not run to completion and   *)
(* writes no recommendations.                                              *)
RefusesBrokenRule ==
    (\E r \in assoc : r.pair_freq > r.product_freq)
        => pc_rank # "done" /\ recommendations = {}

-----------------------------------------------------------------------------
(* C4: once S2 has completed successfully, every customer of the basket    *)
(* table has exactly one row in customer_clusters, whatever the size of    *)
(* its segment, its feature variance or the outcome of building its        *)
(* feature matrix.                                                         *)
OneClusterPerCustomer ==
    pc_train = "saved" =>
        \A c \in {r.customer_id : r \in train_df} :
            Cardinality({k \in clusters : k.customer_id = c}) = 1

-----------------------------------------------------------------------------
(* C5: a second run on the same recommendations, the same feedback file    *)
(* and the same configuration publishes the same final recommendations and *)
(* the same feedback summary as the first, whatever the wall-clock time of *)
(* each run.                                                               *)
RerunIdentical ==
    previous # {} => previous = {[final |-> final, summary |-> summary]}

-----------------------------------------------------------------------------
(* What a served request asks for, as the claims about S6 read it. *)
Served == pc_inf = "serving" /\ response.outcome # "none"
AskedCustomer ==
    IF input_data.customer_id.tag = "value" THEN Strip(input_data.customer_id.val) ELSE ""
AskedSegment ==
    IF input_data.segment.tag = "value" THEN Strip(input_data.segment.val) ELSE ""
AskedRows == {r \in model.reco_df : r.customer_id = AskedCustomer}

(* C7: predict_fn never raises for a malformed request: an empty or        *)
(* missing customer_id, or a customer without precomputed rows whose       *)
(* segment is missing, null or empty, whose purchase_vector is missing or  *)
(* empty, or whose segment has no model, gets a returned payload with an   *)
(* "error" field.                                                          *)
MalformedGetsErrorPayload ==
    (/\ Served
     /\ \/ AskedCustomer = ""
        \/ /\ AskedRows = {}
           /\ \/ AskedSegment = ""
              \/ input_data.purchase_vector.tag # "value"
              \/ DOMAIN input_data.purchase_vector.val = {}
              \/ ~ \E m \in model.models : m.segment = AskedSegment)
        => response.outcome = "return" /\ response.has_error

(* C8: a request with an `instances` array of length n is answered with a  *)
(* `predictions` array of length n whose i-th entry answers the i-th       *)
(* instance.                                                               *)
BatchAnswered ==
    (Served /\ input_data.instances.tag = "value")
        => /\ response.outcome = "return"
           /\ response.has_predictions
           /\ Len(response.predictions) = Len(input_data.instances.val)
           /\ \A i \in 1..Len(input_data.instances.val) :
                 response.predictions[i].customer_id = input_data.instances.val[i]

(* C9: a request whose customer_id has rows in the loaded final            *)
(* recommendations is answered with source "precomputed" and exactly those *)
(* rows in ascending rank order, whatever it carries as segment and        *)
(* purchase_vector.                                                        *)
PrecomputedFirst ==
    (Served /\ AskedRows # {})
        => /\ response.outcome = "return"
           /\ response.source = "precomputed"
           /\ Len(response.recommendations) = Cardinality(AskedRows)
           /\ {<<x.product_id, x.rank>> : x \in
                 {response.recommendations[i] : i \in 1..Len(response.recommendations)}}
              = {<<r.recommended_product, r.rank>> : r \in AskedRows}
           /\ \A i \in 1..Len(response.recommendations), j \in 1..Len(response.recommendations) :
                 i < j => response.recommendations[i].rank <= response.recommendations[j].rank

(* C10: a customer_id without precomputed rows, a segment with a loaded    *)
(* model and a non-empty purchase_vector are answered with source          *)
(* "realtime_assignment", no recommendations, a message, and cluster_id =  *)
(* segment_label, the label being the estimator's prediction for the       *)
(* vector in the model's column order with 0 for every column the          *)
(* purchase_vector lacks; its other keys are ignored.                      *)
RealtimeAssignment ==
    (/\ Served
     /\ AskedCustomer # "" /\ AskedRows = {}
     /\ \E m \in model.models : m.segment = AskedSegment
     /\ input_data.purchase_vector.tag = "value"
     /\ DOMAIN input_data.purchase_vector.val # {})
        => LET m  == CHOOSE x \in model.models : x.segment = AskedSegment
               pv == input_data.purchase_vector.val
               expected == [j \in 1..Len(m.feature_cols) |->
                              IF m.feature_cols[j] \in DOMAIN pv
                              THEN pv[m.feature_cols[j]] ELSE 0]
           IN  /\ response.outcome = "return"
               /\ response.source = "realtime_assignment"
               /\ response.recommendations = <<>>
               /\ response.has_message /\ ~response.has_error
               /\ response.segment = AskedSegment
               /\ response.cluster_id
                    = AskedSegment \o "_" \o ToString(EstimatorLabel(m, expected))

\* A cold-start answer for a vector that lacks a model column and carries a
\* key that is no model column, assigned to the second cluster or the first.
RealtimeAssignmentWitness ==
    /\ Served
    /\ response.source = "realtime_assignment"
    /\ "other" \in DOMAIN input_data.purchase_vector.val
    /\ "l2_A" \notin DOMAIN input_data.purchase_vector.val
    /\ model.reco_df # {}

-----------------------------------------------------------------------------
(* C11: resolve_weight, case-insensitively and ignoring surrounding          *)
(* whitespace, returns WEIGHT_HIGH for High and WEIGHT_LOW for Low whatever  *)
(* the reason and sentiment; for Medium the explicit sentiment positive /    *)
(* negative decides (WEIGHT_MED_POS / WEIGHT_MED_NEG) before the reason      *)
(* code; otherwise WEIGHT_MED_NEG for a known negative reason and            *)
(* WEIGHT_MED_POS for a known positive reason or no signal; 1.0 for any      *)
(* other rating.                                                             *)

\* The cell spells the word, in some casing and with some whitespace around.
Spells(cell, word) == \E st \in CellStyles : cell = Cell(word, st)

WeightTable ==
    pc_weight = "returned" =>
        LET is_pos == Spells(fb_row.sentiment, Positive)
            is_neg == Spells(fb_row.sentiment, Negative)
            neg_reason == Spells(fb_row.reason_code, NotRelevant)
        IN  /\ Spells(fb_row.rating, High) => feedback_weight = WEIGHT_HIGH
            /\ Spells(fb_row.rating, Low) => feedback_weight = WEIGHT_LOW
            /\ Spells(fb_row.rating, Medium) =>
                  feedback_weight = IF is_pos THEN WEIGHT_MED_POS
                           ELSE IF is_neg THEN WEIGHT_MED_NEG
                           ELSE IF neg_reason THEN WEIGHT_MED_NEG
                           ELSE WEIGHT_MED_POS
            /\ (\A w \in {High, Low, Medium} : ~Spells(fb_row.rating, w)) => feedback_weight = 1000

\* A Medium rating in capitals between whitespace, with a positive sentiment
\* and a negative reason code: the sentiment wins.
WeightTableWitness ==
    /\ pc_weight = "returned"
    /\ fb_row.rating = Cell(Medium, "tabbed")
    /\ fb_row.sentiment = Cell(Positive, "padded")
    /\ fb_row.reason_code = Cell(NotRelevant, "tabbed")
    /\ feedback_weight = WEIGHT_MED_POS
    /\ WEIGHT_MED_POS # WEIGHT_MED_NEG

-----------------------------------------------------------------------------
(* C12: apply_calibration multiplies the score of each recommendation by the *)
(* weight of the feedback row joined on (customer_id, recommended_product),  *)
(* removes every row whose resulting score is below SCORE_CUTOFF and ranks   *)
(* the remaining rows of each customer by descending calibrated score; at    *)
(* the default cutoff a score of 0.5 rated Low becomes 0.05 and is removed,  *)
(* a score of 0.5 rated High becomes 0.65 and is retained.                   *)

\* The run applied feedback: load_feedback returned rows.
Calibrated == pc_fb = "done" /\ load_feedback(feedback, now).present

\* The rating in force for a recommendation row, as a word; "" without one.
RatingOf(r) ==
    LET M == {f \in load_feedback(feedback, now).rows :
                f.customer_id = r.customer_id /\ f.product_id = r.recommended_product}
    IN  IF M = {} THEN "" ELSE StripLower((CHOOSE f \in M : TRUE).rating)

\* The calibrated score of a recommendation row, in units of 1e-9.
CalibratedScore(r) ==
    LET M == {f \in load_feedback(feedback, now).rows :
                f.customer_id = r.customer_id /\ f.product_id = r.recommended_product}
    IN  r.score * (IF M = {} THEN 1000 ELSE RowWeight(CHOOSE f \in M : TRUE))

FinalRowsOf(r) ==
    {f \in final : f.customer_id = r.customer_id
                   /\ f.recommended_product = r.recommended_product}

CalibrationCuts ==
    Calibrated =>
        /\ \A r \in recommendations :
              IF CalibratedScore(r) < SCORE_CUTOFF * 1000
              THEN FinalRowsOf(r) = {}
              ELSE \E f \in final :
                      /\ FinalRowsOf(r) = {f}
                      /\ f.score * 1000 = CalibratedScore(r)
        /\ \A f \in final : \E r \in recommendations : f \in FinalRowsOf(r)
        /\ \A f \in final, g \in final :
              f.customer_id = g.customer_id /\ f # g =>
                  /\ f.rank # g.rank
                  /\ f.score > g.score => f.rank < g.rank
        /\ SCORE_CUTOFF = 80000 =>
              \A r \in recommendations :
                  r.score = 500000 =>
                      /\ RatingOf(r) = "low" => FinalRowsOf(r) = {}
                      /\ RatingOf(r) = "high" =>
                            \E f \in FinalRowsOf(r) : f.score = 650000

\* One customer with two recommendations of score 0.5 at the default cutoff,
\* one rated Low and removed, the other rated High and kept at 0.65, rank 1.
CalibrationCutsWitness ==
    /\ Calibrated
    /\ SCORE_CUTOFF = 80000
    /\ \E r \in recommendations, q \in recommendations :
          /\ r.customer_id = q.customer_id
          /\ r.score = 500000 /\ q.score = 500000
          /\ RatingOf(r) = "low" /\ FinalRowsOf(r) = {}
          /\ RatingOf(q) = "high"
          /\ \E f \in FinalRowsOf(q) : f.score = 650000 /\ f.rank = 1

-----------------------------------------------------------------------------
(* C13: when the feedback file is missing, unreadable, empty, lacks a        *)
(* required column, or has no row left after the recency filter, S5 does not *)
(* fail: it publishes the S4 recommendations unchanged (same rows, scores    *)
(* and ranks) and publishes no feedback summary.                             *)

\* The feedback file the run read is one of the five kinds.
Unusable ==
    \/ ~feedback.present
    \/ ~feedback.readable
    \/ feedback.rows = {}
    \/ \E col \in {"customer_id", "product_id", "rating"} : col \notin feedback.columns
    \/ /\ "feedback_date" \in feedback.columns
       /\ \A r \in feedback.rows :
             r.feedback_date # NaT /\ r.feedback_date < now - FEEDBACK_RECENCY_DAYS

BypassUnchanged ==
    pc_fb = "done" /\ Unusable => final = recommendations /\ summary = {}

\* A readable file with a row but without the rating column, read by a run
\* that had recommendations to publish.
BypassUnchangedWitness ==
    /\ pc_fb = "done"
    /\ recommendations # {}
    /\ feedback.present /\ feedback.readable /\ feedback.rows # {}
    /\ "rating" \notin feedback.columns
    /\ final = recommendations
    /\ summary = {}

-----------------------------------------------------------------------------
(* C14: in build_feedback_summary, for any configured thresholds: with an    *)
(* overall acceptance below 0.5 the suggested MIN_CONFIDENCE and             *)
(* SCORE_CUTOFF are each at least the value in force, with an acceptance     *)
(* above 0.8 each is at most the value in force, and in between each equals  *)
(* the value in force; the suggestions are only recorded, the calibration of *)
(* the same run cuts at the configured SCORE_CUTOFF.                         *)

\* The suggestion s (in units of 1e-3) against the value v in force (in the
\* same units), for the acceptance rate a (in units of 1e-4).
Follows(a, s, v) ==
    IF a < 5000 THEN s >= v
    ELSE IF a > 8000 THEN s <= v
    ELSE s = v

SuggestionsFollowAcceptance ==
    \A s \in summary :
        /\ Follows(s.acceptance_rate, s.MIN_CONFIDENCE, MIN_CONFIDENCE)
        /\ Follows(s.acceptance_rate, s.SCORE_CUTOFF * 1000, SCORE_CUTOFF)
        /\ \A r \in recommendations :
              FinalRowsOf(r) # {} <=> CalibratedScore(r) >= SCORE_CUTOFF * 1000

-----------------------------------------------------------------------------
(* C15: S1 keeps a customer exactly when their number of invoices after the  *)
(* recency cutoff is at least MIN_ORDER_COUNT: a customer with exactly       *)
(* MIN_ORDER_COUNT invoices appears in the basket table and one with         *)
(* MIN_ORDER_COUNT - 1 invoices does not, however the invoices are spread    *)
(* over dates.                                                               *)

\* The invoices of customer c that S1 counts: parseable date, not older than
\* the recency cutoff.
InvoicesOf(c) ==
    {r.invoice_id : r \in {x \in invoice_csv :
        /\ x.customer_id = c
        /\ x.invoice_date # NaT
        /\ x.invoice_date >= RefDate(invoice_csv) - RECENCY_CUTOFF_DAYS}}

KeepsByInvoiceCount ==
    pc_mb \in {"done", "failed"} =>
        \A c \in {r.customer_id : r \in invoice_csv} :
            (\E g \in grouped : g.customer_id = c)
                <=> Cardinality(InvoicesOf(c)) >= MIN_ORDER_COUNT

-----------------------------------------------------------------------------
(* C19: in S1 the reference date is the maximum parseable invoice date of    *)
(* the input.  When the most recent invoice is removed from the input the    *)
(* reference date does not move later, every basket row whose last purchase  *)
(* date is unchanged has its recency_days reduced by exactly the number of   *)
(* days the reference date moved, and recency_days is never negative.        *)

\* The dates of the lines of invoice.csv `inv` for customer and product of
\* the basket row g.
PurchaseDates(inv, g) ==
    {r.invoice_date : r \in {x \in inv : /\ x.customer_id = g.customer_id
                                          /\ x.product_id = g.product_id
                                          /\ x.invoice_date # NaT}}

\* d is the greatest of the dates D.
Latest(D, d) == d \in D /\ \A x \in D : x <= d

-----------------------------------------------------------------------------
(* C16: S3 keeps a rule that passed the frequency floor exactly when its     *)
(* lift = confidence / (product_freq(B) / total_baskets) is at least         *)
(* MIN_LIFT: a rule whose lift equals MIN_LIFT is kept, a rule whose lift is *)
(* below MIN_LIFT by any amount, however small, is removed.                  *)

\* lift >= MIN_LIFT for the counts c, in exact arithmetic:
\* (pair_freq / product_freq) / (product_b_freq / total_baskets) >= MIN_LIFT / 10000
ExactLiftAtLeastMin(c) ==
    c.pair_freq * c.total_baskets * 10000 >= MIN_LIFT * c.product_freq * c.product_b_freq

KeepsByExactLift ==
    pc_assoc = "done" =>
        \A c \in basket_counts :
            c.product_freq >= MinFreq(c.total_baskets) =>
                ((\E r \in associations : r.product_a = c.product_a
                                          /\ r.product_b = c.product_b)
                    <=> ExactLiftAtLeastMin(c))

-----------------------------------------------------------------------------
(* C17: in S3 sessionization, with the invoice rows of a customer sorted by  *)
(* date, a row starts a new basket session exactly when it is the first row  *)
(* of the customer or its gap in days to the previous row is strictly        *)
(* greater than the window; a gap equal to the window stays in the current   *)
(* session, and the session indices of a customer increase by one per new    *)
(* session.                                                                  *)

\* The rows of r's customer on the latest date before r's date.
PreviousRows(r) ==
    {q \in df : /\ q.customer_id = r.customer_id
                /\ q.invoice_date < r.invoice_date
                /\ \A x \in df : x.customer_id = r.customer_id
                                  /\ x.invoice_date < r.invoice_date
                                  => x.invoice_date <= q.invoice_date}

SessionsSplitOnGap ==
    pc_assoc # "start" =>
        \A r \in df :
            /\ PreviousRows(r) = {} => r.basket_id = 1
            /\ \A q \in PreviousRows(r) :
                  r.basket_id = IF r.invoice_date - q.invoice_date > window
                                THEN q.basket_id + 1 ELSE q.basket_id
            /\ \A q \in df : q.customer_id = r.customer_id
                              /\ q.invoice_date = r.invoice_date
                              => q.basket_id = r.basket_id

\* Invoices on days 1, 9 and 40 with a window of 8 days: the gap of 8 stays
\* in session 1, the gap of 31 opens session 2.
SessionsSplitOnGapWitness ==
    /\ pc_assoc # "start"
    /\ window = 8
    /\ \E a \in df, b \in df, c \in df :
          /\ a.invoice_date = 1 /\ b.invoice_date = 9 /\ c.invoice_date = 40
          /\ a.basket_id = 1 /\ b.basket_id = 1 /\ c.basket_id = 2

-----------------------------------------------------------------------------
(* C18: with WINDOW_DAYS = 0 and a single customer whose invoices fall on    *)
(* days 1, 40 and 80, the computed window is the per-customer median gap     *)
(* clamped into [7, 90], namely 40, and sessionization yields two baskets    *)
(* (not three, not one).                                                     *)

\* The run computed its window from the three invoice rows of one clustered
\* customer, one on each of the days 1, 40 and 80.
ThreeDates ==
    /\ pc_assoc # "start"
    /\ WINDOW_DAYS = 0
    /\ {r.invoice_date : r \in invoices} = {1, 40, 80}
    /\ Cardinality(invoices) = 3
    /\ df # {}

ThreeDatesTwoBaskets ==
    ThreeDates => window = 40 /\ Cardinality({r.global_basket_id : r \in df}) = 2

\* As the code has it: the gaps are 39 and 40, their median 39.5 rounds to
\* the window 40, neither gap exceeds it and the three dates are one basket.
ThreeDatesOneBasket ==
    ThreeDates => window = 40 /\ Cardinality({r.global_basket_id : r \in df}) = 1

ThreeDatesOneBasketWitness ==
    /\ ThreeDates
    /\ window = 40
    /\ \A r \in df : r.basket_id = 1
    /\ \E r \in df : r.invoice_date = 80

(* C20: in every execution of the pipeline, ClusteringTrain starts only     *)
(* after MarketBasket has completed, Associations only after MarketBasket   *)
(* and ClusteringTrain, Ranking only after Associations, and                *)
(* FeedbackCalibration only after Ranking; a step that has started found    *)
(* every step whose artifact it reads completed; and while a step is        *)
(* failed, none of the steps downstream of it has started.                  *)
Started(e, step) == executions[e][step].status # "Pending"

RECURSIVE DownstreamOf(_, _)
DownstreamOf(S, n) ==
    IF n = 0 THEN S
    ELSE DownstreamOf(S \cup {t \in PipelineSteps :
                                 (depends_on(t) \cup step_inputs(t)) \cap S # {}}, n - 1)

Downstream(step) == DownstreamOf({step}, Cardinality(PipelineSteps)) \ {step}

StagesInOrder ==
    \A e \in DOMAIN executions :
        LET done(step) == executions[e][step].completed
        IN  /\ Started(e, "ClusteringTrain") => "MarketBasket" \in done("ClusteringTrain")
            /\ Started(e, "Associations") =>
                  {"MarketBasket", "ClusteringTrain"} \subseteq done("Associations")
            /\ Started(e, "Ranking") => "Associations" \in done("Ranking")
            /\ Started(e, "FeedbackCalibration") => "Ranking" \in done("FeedbackCalibration")
            /\ \A step \in PipelineSteps :
                  Started(e, step) => step_inputs(step) \subseteq done(step)
            /\ \A step \in PipelineSteps :
                  executions[e][step].status = "Failed" =>
                      \A t \in Downstream(step) : ~Started(e, t)

\* One execution ran every stage to the end, and in another Associations
\* failed after MarketBasket and ClusteringTrain had succeeded.
StagesInOrderWitness ==
    /\ \E e \in DOMAIN executions : executions[e]["FeedbackCalibration"].status = "Succeeded"
    /\ \E e \in DOMAIN executions :
          /\ executions[e]["Associations"].status = "Failed"
          /\ executions[e]["ClusteringTrain"].status = "Succeeded"

(* C21: once model_fn has returned, the loaded snapshot (models and         *)
(* recommendations table) stays what model_fn loaded, whatever requests     *)
(* have been served since and in whatever order, and the response to a      *)
(* request is the response predict_fn gives to that request alone on the    *)
(* snapshot loaded at startup.                                              *)
StartupSnapshot ==
    [models |-> model_dir.models, reco_df |-> IF reco_readable THEN final ELSE {}]

LoadFailureReported ==
    (/\ Served
     /\ ~reco_readable
     /\ AskedCustomer # ""
     /\ input_data.segment.tag # "null")
        => /\ response.outcome = "return"
           /\ response.has_error
           /\ response # ErrorPayload(AskedCustomer, "")
           /\ response.source # "realtime_assignment"

(* C30: once S2 has saved its outputs, every segment that has customers in  *)
(* customer_clusters.csv has an entry in model_registry.json, and a         *)
(* cold-start request naming such a segment, served from the models of that *)
(* registry, is answered with a realtime_assignment.                        *)
RegisteredSegments == {m.segment : m \in model_registry}

\* The models model_fn loads from the registry (estimators of one centre).
RegistryModels ==
    { [segment |-> m.segment, feature_cols |-> m.feature_cols,
       mean |-> [j \in 1..Len(m.feature_cols) |-> 0],
       scale |-> [j \in 1..Len(m.feature_cols) |-> 1],
       centroids |-> << [j \in 1..Len(m.feature_cols) |-> 0] >>] : m \in model_registry }

ColdStart(segment) ==
    [NoRequest EXCEPT !.customer_id = Given("C9"), !.segment = Given(segment),
                      !.purchase_vector = Given([l2_A |-> 3])]

ClusteredSegmentsRegistered ==
    pc_train = "saved" =>
        \A segment \in {k.segment : k \in clusters} :
            /\ segment \in RegisteredSegments
            /\ predict_fn(ColdStart(segment), [models |-> RegistryModels, reco_df |-> {}]).source
                  = "realtime_assignment"

(* C25: for a segment that is clustered (n >= MIN_CLUSTER_CUSTOMERS), with  *)
(* K = min(MAX_K, n - 1): the k chosen lies in 1..K, and for every list of  *)
(* inertias of k = 2..K elbow_k returns the first k whose percentage drop   *)
(* from k-1 to k is below ELBOW_THRESHOLD, or K when there is none; a       *)
(* segment with fewer than MIN_CLUSTER_CUSTOMERS customers has all its      *)
(* customers in the single cluster segment_0.                               *)
FirstElbow(inertias, K) ==
    LET below(k) == /\ \A j \in 3..k : inertias[j - 2] # 0
                    /\ (inertias[k - 2] - inertias[k - 1]) * 100
                          < ELBOW_THRESHOLD * inertias[k - 2]
        elbows   == {k \in 3..K : below(k)}
    IN  IF K < 2 THEN 1
        ELSE IF elbows = {} THEN K
        ELSE CHOOSE k \in elbows : \A q \in elbows : k <= q

ElbowSelection ==
    /\ \A m \in model_registry :
          LET K == Min(MAX_K, m.n_customers - 1)
          IN  /\ m.k \in 1..K
              /\ \A inertias \in [1..Max(0, K - 1) -> {0, 80, 95, 100}] :
                    elbow_k(m.n_customers, MAX_K, inertias) = FirstElbow(inertias, K)
    /\ pc_train = "saved" =>
          \A segment \in {r.segment : r \in train_df} :
             Cardinality({r.customer_id : r \in {x \in train_df : x.segment = segment}})
                  < MIN_CLUSTER_CUSTOMERS
               => \A r \in {x \in train_df : x.segment = segment} :
                     [customer_id |-> r.customer_id, cluster_id |-> segment \o "_0",
                      segment |-> segment] \in clusters

(* C22: after S4, every customer with basket rows and a cluster assignment  *)
(* has exactly min(TOP_K, A + F) recommendations, A being the number of     *)
(* distinct products that qualify for the customer through association      *)
(* rules and F the number of products of the fallback pool (purchased by    *)
(* some customer of the same segment, in stock, not purchased by the        *)
(* customer, not already recommended); fallback rows have trigger_product   *)
(* "fallback", support = confidence = lift = 0 and score 0.1 + the          *)
(* customer's L2 affinity for the product, and no pool product left out     *)
(* precedes a fallback product taken in (affinity, segment popularity)      *)
(* descending.                                                              *)
ClusteredCustomers == {r.customer_id : r \in RankDf(basket, clusters)}

SegmentOf(c) == (CHOOSE r \in basket : r.customer_id = c).segment

QualifyingProducts(c) ==
    LET cluster == (CHOOSE k \in clusters : k.customer_id = c).cluster_id
        bought  == {r.product_id : r \in {x \in basket : x.customer_id = c}}
    IN  {r.product_b : r \in {x \in assoc :
            /\ x.cluster_id = cluster /\ x.segment = SegmentOf(c)
            /\ RuleQualifies(x, bought, InStockIds(basket))}}

FallbackPool(c) ==
    ({r.product_id : r \in {x \in basket : x.segment = SegmentOf(c)}} \cap InStockIds(basket))
        \ ({r.product_id : r \in {x \in basket : x.customer_id = c}}
              \cup QualifyingProducts(c))

SegmentPopularity(c, p) ==
    LET G == {r \in basket : r.segment = SegmentOf(c) /\ r.product_id = p}
    IN  SumFn([r \in G |-> r.purchase_frequency], G)

AssociationsSurviveTopUp ==
    pc_rank = "done" =>
        \A c \in ClusteredCustomers :
            LET recs == {r \in recommendations : r.customer_id = c}
                kept == {r.recommended_product :
                            r \in {x \in recs : x.trigger_product # "fallback"}}
            IN  /\ Cardinality(QualifyingProducts(c)) < TOP_K
                      => QualifyingProducts(c) \subseteq kept
                /\ Cardinality(QualifyingProducts(c)) >= TOP_K
                      => \A r \in recs : r.trigger_product # "fallback"

\* A customer's list holds an association row ranked below a fallback row
\* of higher score.
AssociationsSurviveTopUpWitness ==
    /\ pc_rank = "done"
    /\ \E r \in recommendations, f \in recommendations :
          /\ r.customer_id = f.customer_id
          /\ r.trigger_product # "fallback" /\ f.trigger_product = "fallback"
          /\ f.score > r.score /\ f.rank < r.rank

(* C23: the score of an association candidate of S4 is the composite score  *)
(* of its rule plus share x L3_TIEBREAK_MARGIN when the customer has        *)
(* purchased in the L3 category of the recommended product (share being the *)
(* customer's purchase-frequency proportion in that category), and the      *)
(* composite score alone otherwise; the bonus is at most the margin, and    *)
(* two candidates of a customer are ordered against their raw scores only   *)
(* when these differ by less than the margin.                               *)
RawScore(r) ==
    LET x == CHOOSE y \in assoc :
                /\ y.product_a = r.trigger_product /\ y.product_b = r.recommended_product
                /\ y.cluster_id = r.cluster_id /\ y.segment = r.segment
    IN  score_rule(x.confidence, x.weighted_support, x.lift,
                   RecencyScore(RankDf(basket, clusters), r.customer_id))

PurchasedShare(r) ==
    LET mine == {b \in basket : b.customer_id = r.customer_id}
        l3   == (CHOOSE b \in basket : b.product_id = r.recommended_product).l3_category
        same == {b \in mine : b.l3_category = l3}
    IN  [num |-> SumFn([b \in same |-> b.purchase_frequency], same),
         den |-> SumFn([b \in mine |-> b.purchase_frequency], mine)]

TiebreakBonus ==
    LET cands == {r \in out : r.trigger_product # "fallback"}
    IN  /\ \A r \in cands :
              LET share == PurchasedShare(r)
                  bonus == r.score - RawScore(r)
              IN  /\ share.num = 0 => bonus = 0
                  /\ share.num > 0 => bonus = (share.num * L3_TIEBREAK_MARGIN) \div share.den
                  /\ bonus <= L3_TIEBREAK_MARGIN
        /\ \A r \in cands, q \in cands :
              (r.customer_id = q.customer_id /\ RawScore(r) > RawScore(q) /\ r.score < q.score)
                  => RawScore(r) - RawScore(q) < L3_TIEBREAK_MARGIN

\* Raw 0.400 with share 0.6 becomes 0.412 and is ranked above raw 0.405
\* without bonus.
TiebreakBonusWitness ==
    /\ pc_rank = "done"
    /\ \E r \in recommendations, q \in recommendations :
          /\ r.customer_id = q.customer_id
          /\ r.score = 412000 /\ q.score = 405000
          /\ RawScore(r) = 400000 /\ RawScore(q) = 405000
          /\ PurchasedShare(r) = [num |-> 3, den |-> 5]
          /\ r.rank = 1 /\ q.rank = 2

-----------------------------------------------------------------------------
\* C27: the S4 output has at most one row per (customer_id,
\* recommended_product); when several rules with different triggers recommend
\* the same product to a customer, the row kept is one of them with the
\* maximum score; within each customer rank follows descending score, and the
\* rows the TOP_K cap removes score no more than the rows it keeps.
RuleCandidates ==
    LET d == RankDf(basket, clusters)
    IN  UNION { CustomerCandidates(d, basket, assoc, c) : c \in {r.customer_id : r \in d} }

RecoKey(r) == <<r.customer_id, r.recommended_product>>

HighestScoreKept ==
    pc_rank = "done" =>
        /\ \A r \in recommendations, q \in recommendations : RecoKey(r) = RecoKey(q) => r = q
        /\ \A r \in recommendations, x \in RuleCandidates \cup out :
              RecoKey(x) = RecoKey(r) => r.score >= x.score
        /\ \A r \in recommendations :
              r.trigger_product # "fallback" =>
                  \E x \in RuleCandidates : (x @@ ("rank" :> r.rank)) = r
        /\ \A r \in recommendations, q \in recommendations :
              r.customer_id = q.customer_id /\ r.rank < q.rank => r.score >= q.score
        /\ \A x \in out :
              (\A r \in recommendations : RecoKey(r) # RecoKey(x)) =>
                  /\ Cardinality(CustRows(recommendations, x.customer_id)) = TOP_K
                  /\ \A r \in CustRows(recommendations, x.customer_id) : r.score >= x.score

\* Two rules with different triggers recommend the same product to a customer
\* with different scores, and the customer holds a second row of another score.
HighestScoreKeptWitness ==
    /\ pc_rank = "done"
    /\ \E r \in recommendations, x \in RuleCandidates, q \in recommendations :
          /\ RecoKey(x) = RecoKey(r)
          /\ x.trigger_product # r.trigger_product
          /\ x.score < r.score
          /\ q.customer_id = r.customer_id
          /\ q.score # r.score

-----------------------------------------------------------------------------
\* C24: when several feedback rows exist for the same (customer, product),
\* apply_calibration applies exactly one weight to the matching
\* recommendation, the weight of a row with the greatest feedback_date (a row
\* without a date loses to any dated row), and the join does not duplicate the
\* recommendation row.
RatingsOf(r) ==
    {f \in load_feedback(feedback, now).rows :
        f.customer_id = r.customer_id /\ f.product_id = r.recommended_product}

NewestRatings(r) ==
    {f \in RatingsOf(r) :
        \A g \in RatingsOf(r) :
            \/ g.feedback_date = NaT
            \/ f.feedback_date # NaT /\ f.feedback_date >= g.feedback_date}

LatestRatingWins ==
    Calibrated =>
        \A r \in recommendations :
            RatingsOf(r) # {} =>
                \E w \in NewestRatings(r) :
                    IF r.score * RowWeight(w) < SCORE_CUTOFF * 1000
                    THEN FinalRowsOf(r) = {}
                    ELSE \E f \in final :
                            /\ FinalRowsOf(r) = {f}
                            /\ f.score * 1000 = r.score * RowWeight(w)

\* A recommendation rated Low on one day, High on a later day and not
\* relevant without a date: it is published once, with the High weight.
LatestRatingWinsWitness ==
    /\ Calibrated
    /\ \E r \in recommendations :
          /\ Cardinality(RatingsOf(r)) = 3
          /\ \E a \in RatingsOf(r), b \in RatingsOf(r), c \in RatingsOf(r) :
                /\ a.feedback_date = NaT /\ RowWeight(a) = WEIGHT_MED_NEG
                /\ b.feedback_date = Today - 10 /\ RowWeight(b) = WEIGHT_LOW
                /\ c.feedback_date = Today - 5 /\ RowWeight(c) = WEIGHT_HIGH
          /\ r.score = 500000
          /\ \E f \in final : FinalRowsOf(r) = {f} /\ f.score = 650000

-----------------------------------------------------------------------------
\* C28: when a non-empty feedback set is applied, a recommendation with no
\* feedback row for its (customer, recommended_product) keeps its score and
\* stays in the final output, and apply_calibration adds no row and changes no
\* field other than score and rank: the S5 output rows are a subset of the S4
\* rows.
UnratedKept ==
    Calibrated =>
        \A r \in recommendations :
            RatingsOf(r) = {} =>
                \E f \in final : FinalRowsOf(r) = {f} /\ f.score = r.score

OnlyScoreAndRank ==
    Calibrated =>
        \A f \in final :
            \E r \in recommendations : [f EXCEPT !.score = r.score, !.rank = r.rank] = r

CalibrationFrame == UnratedKept /\ OnlyScoreAndRank

\* What the code keeps: an unrated recommendation keeps its score, and stays
\* exactly when that score is not below SCORE_CUTOFF; nothing is added and
\* nothing but score and rank changes.
CalibrationFrameAboveCutoff ==
    /\ OnlyScoreAndRank
    /\ Calibrated =>
          \A r \in recommendations :
              RatingsOf(r) = {} =>
                  IF r.score >= SCORE_CUTOFF
                  THEN \E f \in final : FinalRowsOf(r) = {f} /\ f.score = r.score
                  ELSE FinalRowsOf(r) = {}

\* Feedback on one recommendation while two others are unrated: the one
\* scoring at least SCORE_CUTOFF is published with its score, the one scoring
\* less is not published.
CalibrationFrameWitness ==
    /\ Calibrated
    /\ \E r \in recommendations, q \in recommendations, x \in recommendations :
          /\ RatingsOf(x) # {}
          /\ RatingsOf(r) = {} /\ RatingsOf(q) = {}
          /\ r.score >= SCORE_CUTOFF /\ q.score < SCORE_CUTOFF
          /\ \E f \in final : FinalRowsOf(r) = {f} /\ f.score = r.score
          /\ FinalRowsOf(q) = {}

====
